---- MODULE Spec2Model ----
(***************************************************************************)
(* The one-time-code store of app/services/sns.py: the two process-wide    *)
(* dictionaries verification_codes and password_reset_codes and the        *)
(* functions that issue, check, query and clear their entries.             *)
(*                                                                         *)
(* Every function of sns.py runs to completion without an await, and the   *)
(* route handlers that call them are coroutines of one event loop, so one  *)
(* call is one atomic step; concurrent callers are interleavings of steps. *)
(* Time is the value datetime.utcnow() returns, in minutes.                *)
(*                                                                         *)
(* Further parts: the JWT functions of app/services/auth.py with the       *)
(* dependencies of app/middleware/auth.py (SpecTokens), and the handlers   *)
(* of app/routes/auth.py that call the store and db.users (SpecReset,      *)
(* SpecRegister).                                                          *)
(***************************************************************************)
EXTENDS Integers, Sequences, FiniteSets, TLC

VARIABLES verification_codes, password_reset_codes, now, lastOp, hist

\* app/services/auth.py and app/middleware/auth.py: the clock the token
\* functions read (in half seconds), the latest create_access_token call and
\* the latest call of a function that validates a token
VARIABLES clock, issued, authed

tokenVars == <<clock, issued, authed>>

\* app/routes/auth.py: the documents of db.users, the handler coroutines
\* suspended at an await, and what the endpoints have answered
VARIABLES users, calls, http

routeVars == <<users, calls, http>>

\* the state no function of sns.py reads or writes
outside == <<tokenVars, routeVars>>

vars == <<verification_codes, password_reset_codes, now, lastOp, hist, outside>>

(* ------------------------------ bounds -------------------------------- *)

\* the last instant of a run, in minutes after the process started
MaxTime == 20
\* wrong-code calls counted per key after one issue
MaxCalls == 7

(* ------------------------- program constants -------------------------- *)

\* timedelta(minutes=10), timedelta(minutes=15), the attempt limit
VerifyTTL == 10
ResetTTL == 15
MaxAttempts == 5

(* ------------------------------ inputs -------------------------------- *)

\* an e-mail address is a sequence of characters
EMAILS == { <<"a", "@", "x">>, <<"A", "@", "X">> }

\* the codes generate_verification_code draws from
CODES == { "482913", "000000" }

\* the codes a caller may submit: the issued ones and one never issued
CANDIDATES == CODES \cup { "123456" }

None == "none"

\* the instants the clock is read at: the start, the instants at which an
\* entry issued at the start reaches its expiry in either flow, and the end
INSTANTS == { 0, VerifyTTL, ResetTTL, MaxTime }

(* ------------------------------ helpers ------------------------------- *)

LowerChar(c) ==
    CASE c = "A" -> "a"
      [] c = "X" -> "x"
      [] OTHER -> c

\* str.lower()
Lower(email) == [i \in DOMAIN email |-> LowerChar(email[i])]

KEYS == { Lower(e) : e \in EMAILS }

\* del d[k]
Del(d, k) == [x \in (DOMAIN d) \ {k} |-> d[x]]

\* d[k] = v
Put(d, k, v) == [x \in (DOMAIN d) \cup {k} |-> IF x = k THEN v ELSE d[x]]

Min(a, b) == IF a <= b THEN a ELSE b

\* what a call returns: ok is the boolean of the returned dict ('valid',
\* 'success') or the returned bool; outcome names the message; remaining is
\* the number the 'Invalid code' message carries (-1 when it carries none)
Res(ok, outcome, remaining) ==
    [ok |-> ok, outcome |-> outcome, remaining |-> remaining]

NoEntry == << >>

(* ----------------------- registration-verify flow --------------------- *)

\* a re-issue that refreshes expiry and attempts but keeps the stored code
StoreVerificationCodeKeepsCode(codes, t, email, code) ==
    Put(codes, Lower(email),
        [code |-> IF Lower(email) \in DOMAIN codes
                  THEN codes[Lower(email)].code ELSE code,
         expires_at |-> t + VerifyTTL, attempts |-> 0])

\* the dictionary after send_verification_code_email stored a fresh code
StoreVerificationCode(codes, t, email, code) ==
    Put(codes, Lower(email),
        [code |-> code, expires_at |-> t + VerifyTTL, attempts |-> 0])

\* the fifth failed comparison deletes the entry at once
VerifyCodeEvictsOnFifth(codes, t, email, code) ==
    LET email_lower == Lower(email) IN
    IF email_lower \notin DOMAIN codes
    THEN [codes |-> codes, result |-> Res(FALSE, "NotFound", -1)]
    ELSE LET stored == codes[email_lower] IN
         IF t > stored.expires_at
         THEN [codes |-> Del(codes, email_lower),
               result |-> Res(FALSE, "Expired", -1)]
         ELSE IF stored.attempts >= MaxAttempts
         THEN [codes |-> Del(codes, email_lower),
               result |-> Res(FALSE, "TooManyAttempts", -1)]
         ELSE IF stored.code # code
         THEN [codes |-> IF stored.attempts + 1 >= MaxAttempts
                            THEN Del(codes, email_lower)
                            ELSE [codes EXCEPT ![email_lower].attempts = @ + 1],
               result |-> Res(FALSE, "Mismatch",
                              MaxAttempts - (stored.attempts + 1))]
         ELSE [codes |-> Del(codes, email_lower),
               result |-> Res(TRUE, "Valid", -1)]

\* the attempt limit tested before the expiry
VerifyCodeLimitBeforeExpiry(codes, t, email, code) ==
    LET email_lower == Lower(email) IN
    IF email_lower \notin DOMAIN codes
    THEN [codes |-> codes, result |-> Res(FALSE, "NotFound", -1)]
    ELSE LET stored == codes[email_lower] IN
         IF stored.attempts >= MaxAttempts
         THEN [codes |-> Del(codes, email_lower),
               result |-> Res(FALSE, "TooManyAttempts", -1)]
         ELSE IF t > stored.expires_at
         THEN [codes |-> Del(codes, email_lower),
               result |-> Res(FALSE, "Expired", -1)]
         ELSE IF stored.code # code
         THEN [codes |-> [codes EXCEPT ![email_lower].attempts = @ + 1],
               result |-> Res(FALSE, "Mismatch",
                              MaxAttempts - (stored.attempts + 1))]
         ELSE [codes |-> Del(codes, email_lower),
               result |-> Res(TRUE, "Valid", -1)]

\* a successful check that leaves the entry in the dictionary
VerifyCodeKeepsOnSuccess(codes, t, email, code) ==
    LET email_lower == Lower(email) IN
    IF email_lower \notin DOMAIN codes
    THEN [codes |-> codes, result |-> Res(FALSE, "NotFound", -1)]
    ELSE LET stored == codes[email_lower] IN
         IF t > stored.expires_at
         THEN [codes |-> Del(codes, email_lower),
               result |-> Res(FALSE, "Expired", -1)]
         ELSE IF stored.attempts >= MaxAttempts
         THEN [codes |-> Del(codes, email_lower),
               result |-> Res(FALSE, "TooManyAttempts", -1)]
         ELSE IF stored.code # code
         THEN [codes |-> [codes EXCEPT ![email_lower].attempts = @ + 1],
               result |-> Res(FALSE, "Mismatch",
                              MaxAttempts - (stored.attempts + 1))]
         ELSE [codes |-> codes,
               result |-> Res(TRUE, "Valid", -1)]

\* the attempt limit tested with > instead of >=
VerifyCodeOffByOne(codes, t, email, code) ==
    LET email_lower == Lower(email) IN
    IF email_lower \notin DOMAIN codes
    THEN [codes |-> codes, result |-> Res(FALSE, "NotFound", -1)]
    ELSE LET stored == codes[email_lower] IN
         IF t > stored.expires_at
         THEN [codes |-> Del(codes, email_lower),
               result |-> Res(FALSE, "Expired", -1)]
         ELSE IF stored.attempts > MaxAttempts
         THEN [codes |-> Del(codes, email_lower),
               result |-> Res(FALSE, "TooManyAttempts", -1)]
         ELSE IF stored.code # code
         THEN [codes |-> [codes EXCEPT ![email_lower].attempts = @ + 1],
               result |-> Res(FALSE, "Mismatch",
                              MaxAttempts - (stored.attempts + 1))]
         ELSE [codes |-> Del(codes, email_lower),
               result |-> Res(TRUE, "Valid", -1)]

\* a check on a missing key that records the failed attempt under the key
VerifyCodeCreatesOnMiss(codes, t, email, code) ==
    LET email_lower == Lower(email) IN
    IF email_lower \notin DOMAIN codes
    THEN [codes |-> Put(codes, email_lower,
                        [code |-> code, expires_at |-> t, attempts |-> 1]),
          result |-> Res(FALSE, "NotFound", -1)]
    ELSE LET stored == codes[email_lower] IN
         IF t > stored.expires_at
         THEN [codes |-> Del(codes, email_lower),
               result |-> Res(FALSE, "Expired", -1)]
         ELSE IF stored.attempts >= MaxAttempts
         THEN [codes |-> Del(codes, email_lower),
               result |-> Res(FALSE, "TooManyAttempts", -1)]
         ELSE IF stored.code # code
         THEN [codes |-> [codes EXCEPT ![email_lower].attempts = @ + 1],
               result |-> Res(FALSE, "Mismatch",
                              MaxAttempts - (stored.attempts + 1))]
         ELSE [codes |-> Del(codes, email_lower),
               result |-> Res(TRUE, "Valid", -1)]

\* a check that looks the email up as it was spelled
VerifyCodeCaseSensitive(codes, t, email, code) ==
    LET email_lower == email IN
    IF email_lower \notin DOMAIN codes
    THEN [codes |-> codes, result |-> Res(FALSE, "NotFound", -1)]
    ELSE LET stored == codes[email_lower] IN
         IF t > stored.expires_at
         THEN [codes |-> Del(codes, email_lower),
               result |-> Res(FALSE, "Expired", -1)]
         ELSE IF stored.attempts >= MaxAttempts
         THEN [codes |-> Del(codes, email_lower),
               result |-> Res(FALSE, "TooManyAttempts", -1)]
         ELSE IF stored.code # code
         THEN [codes |-> [codes EXCEPT ![email_lower].attempts = @ + 1],
               result |-> Res(FALSE, "Mismatch",
                              MaxAttempts - (stored.attempts + 1))]
         ELSE [codes |-> Del(codes, email_lower),
               result |-> Res(TRUE, "Valid", -1)]

\* verify_code: the dictionary it leaves and the dict it returns
VerifyCode(codes, t, email, code) ==
    LET email_lower == Lower(email) IN
    IF email_lower \notin DOMAIN codes
    THEN [codes |-> codes, result |-> Res(FALSE, "NotFound", -1)]
    ELSE LET stored == codes[email_lower] IN
         IF t > stored.expires_at
         THEN [codes |-> Del(codes, email_lower),
               result |-> Res(FALSE, "Expired", -1)]
         ELSE IF stored.attempts >= MaxAttempts
         THEN [codes |-> Del(codes, email_lower),
               result |-> Res(FALSE, "TooManyAttempts", -1)]
         ELSE IF stored.code # code
         THEN [codes |-> [codes EXCEPT ![email_lower].attempts = @ + 1],
               result |-> Res(FALSE, "Mismatch",
                              MaxAttempts - (stored.attempts + 1))]
         ELSE [codes |-> Del(codes, email_lower),
               result |-> Res(TRUE, "Valid", -1)]

\* is_email_verified
IsEmailVerified(codes, email) == Lower(email) \notin DOMAIN codes

\* clear_verification_code
ClearVerificationCode(codes, email) ==
    LET email_lower == Lower(email) IN
    IF email_lower \in DOMAIN codes THEN Del(codes, email_lower) ELSE codes

(* -------------------------- password-reset flow ----------------------- *)

\* a re-issue that carries the attempt count of the entry it replaces
StorePasswordResetCodeKeepsAttempts(codes, t, email, code) ==
    Put(codes, Lower(email),
        [code |-> code, expires_at |-> t + ResetTTL,
         attempts |-> IF Lower(email) \in DOMAIN codes
                      THEN codes[Lower(email)].attempts ELSE 0,
         verified |-> FALSE])

\* the dictionary after send_password_reset_code_email stored a fresh code
StorePasswordResetCode(codes, t, email, code) ==
    Put(codes, Lower(email),
        [code |-> code, expires_at |-> t + ResetTTL, attempts |-> 0,
         verified |-> FALSE])

\* a successful check that is counted as an attempt
VerifyPasswordResetCodeCountsSuccess(codes, t, email, code) ==
    LET email_lower == Lower(email) IN
    IF email_lower \notin DOMAIN codes
    THEN [codes |-> codes, result |-> Res(FALSE, "NotFound", -1)]
    ELSE LET stored == codes[email_lower] IN
         IF t > stored.expires_at
         THEN [codes |-> Del(codes, email_lower),
               result |-> Res(FALSE, "Expired", -1)]
         ELSE IF stored.attempts >= MaxAttempts
         THEN [codes |-> Del(codes, email_lower),
               result |-> Res(FALSE, "TooManyAttempts", -1)]
         ELSE IF stored.code # code
         THEN [codes |-> [codes EXCEPT ![email_lower].attempts = @ + 1],
               result |-> Res(FALSE, "Mismatch",
                              MaxAttempts - (stored.attempts + 1))]
         ELSE [codes |-> [codes EXCEPT ![email_lower].verified = TRUE,
                                       ![email_lower].attempts = @ + 1],
               result |-> Res(TRUE, "Valid", -1)]

\* remaining computed from the count before the increment
VerifyPasswordResetCodeStaleRemaining(codes, t, email, code) ==
    LET email_lower == Lower(email) IN
    IF email_lower \notin DOMAIN codes
    THEN [codes |-> codes, result |-> Res(FALSE, "NotFound", -1)]
    ELSE LET stored == codes[email_lower] IN
         IF t > stored.expires_at
         THEN [codes |-> Del(codes, email_lower),
               result |-> Res(FALSE, "Expired", -1)]
         ELSE IF stored.attempts >= MaxAttempts
         THEN [codes |-> Del(codes, email_lower),
               result |-> Res(FALSE, "TooManyAttempts", -1)]
         ELSE IF stored.code # code
         THEN [codes |-> [codes EXCEPT ![email_lower].attempts = @ + 1],
               result |-> Res(FALSE, "Mismatch",
                              MaxAttempts - stored.attempts)]
         ELSE [codes |-> [codes EXCEPT ![email_lower].verified = TRUE],
               result |-> Res(TRUE, "Valid", -1)]

\* a successful check that resets the attempt count
VerifyPasswordResetCodeResetsAttempts(codes, t, email, code) ==
    LET email_lower == Lower(email) IN
    IF email_lower \notin DOMAIN codes
    THEN [codes |-> codes, result |-> Res(FALSE, "NotFound", -1)]
    ELSE LET stored == codes[email_lower] IN
         IF t > stored.expires_at
         THEN [codes |-> Del(codes, email_lower),
               result |-> Res(FALSE, "Expired", -1)]
         ELSE IF stored.attempts >= MaxAttempts
         THEN [codes |-> Del(codes, email_lower),
               result |-> Res(FALSE, "TooManyAttempts", -1)]
         ELSE IF stored.code # code
         THEN [codes |-> [codes EXCEPT ![email_lower].attempts = @ + 1],
               result |-> Res(FALSE, "Mismatch",
                              MaxAttempts - (stored.attempts + 1))]
         ELSE [codes |-> [codes EXCEPT ![email_lower].verified = TRUE,
                                       ![email_lower].attempts = 0],
               result |-> Res(TRUE, "Valid", -1)]

\* a failed comparison whose increment is not written back to the entry
VerifyPasswordResetCodeLostUpdate(codes, t, email, code) ==
    LET email_lower == Lower(email) IN
    IF email_lower \notin DOMAIN codes
    THEN [codes |-> codes, result |-> Res(FALSE, "NotFound", -1)]
    ELSE LET stored == codes[email_lower] IN
         IF t > stored.expires_at
         THEN [codes |-> Del(codes, email_lower),
               result |-> Res(FALSE, "Expired", -1)]
         ELSE IF stored.attempts >= MaxAttempts
         THEN [codes |-> Del(codes, email_lower),
               result |-> Res(FALSE, "TooManyAttempts", -1)]
         ELSE IF stored.code # code
         THEN [codes |-> codes,
               result |-> Res(FALSE, "Mismatch",
                              MaxAttempts - (stored.attempts + 1))]
         ELSE [codes |-> [codes EXCEPT ![email_lower].verified = TRUE],
               result |-> Res(TRUE, "Valid", -1)]

\* a successful check that restarts the entry's lifetime
VerifyPasswordResetCodeExtendsExpiry(codes, t, email, code) ==
    LET email_lower == Lower(email) IN
    IF email_lower \notin DOMAIN codes
    THEN [codes |-> codes, result |-> Res(FALSE, "NotFound", -1)]
    ELSE LET stored == codes[email_lower] IN
         IF t > stored.expires_at
         THEN [codes |-> Del(codes, email_lower),
               result |-> Res(FALSE, "Expired", -1)]
         ELSE IF stored.attempts >= MaxAttempts
         THEN [codes |-> Del(codes, email_lower),
               result |-> Res(FALSE, "TooManyAttempts", -1)]
         ELSE IF stored.code # code
         THEN [codes |-> [codes EXCEPT ![email_lower].attempts = @ + 1],
               result |-> Res(FALSE, "Mismatch",
                              MaxAttempts - (stored.attempts + 1))]
         ELSE [codes |-> [codes EXCEPT ![email_lower].verified = TRUE,
                                       ![email_lower].expires_at = t + ResetTTL],
               result |-> Res(TRUE, "Valid", -1)]

\* a failed comparison that withdraws an earlier verification
VerifyPasswordResetCodeMismatchUnverifies(codes, t, email, code) ==
    LET email_lower == Lower(email) IN
    IF email_lower \notin DOMAIN codes
    THEN [codes |-> codes, result |-> Res(FALSE, "NotFound", -1)]
    ELSE LET stored == codes[email_lower] IN
         IF t > stored.expires_at
         THEN [codes |-> Del(codes, email_lower),
               result |-> Res(FALSE, "Expired", -1)]
         ELSE IF stored.attempts >= MaxAttempts
         THEN [codes |-> Del(codes, email_lower),
               result |-> Res(FALSE, "TooManyAttempts", -1)]
         ELSE IF stored.code # code
         THEN [codes |-> [codes EXCEPT ![email_lower].attempts = @ + 1,
                                       ![email_lower].verified = FALSE],
               result |-> Res(FALSE, "Mismatch",
                              MaxAttempts - (stored.attempts + 1))]
         ELSE [codes |-> [codes EXCEPT ![email_lower].verified = TRUE],
               result |-> Res(TRUE, "Valid", -1)]

\* verify_password_reset_code: the dictionary it leaves and the dict it returns
VerifyPasswordResetCode(codes, t, email, code) ==
    LET email_lower == Lower(email) IN
    IF email_lower \notin DOMAIN codes
    THEN [codes |-> codes, result |-> Res(FALSE, "NotFound", -1)]
    ELSE LET stored == codes[email_lower] IN
         IF t > stored.expires_at
         THEN [codes |-> Del(codes, email_lower),
               result |-> Res(FALSE, "Expired", -1)]
         ELSE IF stored.attempts >= MaxAttempts
         THEN [codes |-> Del(codes, email_lower),
               result |-> Res(FALSE, "TooManyAttempts", -1)]
         ELSE IF stored.code # code
         THEN [codes |-> [codes EXCEPT ![email_lower].attempts = @ + 1],
               result |-> Res(FALSE, "Mismatch",
                              MaxAttempts - (stored.attempts + 1))]
         ELSE [codes |-> [codes EXCEPT ![email_lower].verified = TRUE],
               result |-> Res(TRUE, "Valid", -1)]

\* the verified flag returned without the expiry test
IsResetCodeVerifiedIgnoresExpiry(codes, t, email) ==
    LET email_lower == Lower(email) IN
    IF email_lower \notin DOMAIN codes
    THEN [codes |-> codes, result |-> FALSE]
    ELSE LET stored == codes[email_lower] IN
         [codes |-> codes, result |-> stored.verified]

\* is_reset_code_verified: the dictionary it leaves and the bool it returns
IsResetCodeVerified(codes, t, email) ==
    LET email_lower == Lower(email) IN
    IF email_lower \notin DOMAIN codes
    THEN [codes |-> codes, result |-> FALSE]
    ELSE LET stored == codes[email_lower] IN
         IF t > stored.expires_at
         THEN [codes |-> Del(codes, email_lower), result |-> FALSE]
         ELSE [codes |-> codes, result |-> stored.verified]

\* a clear that leaves an entry whose code was already verified
ClearPasswordResetCodeKeepsVerified(codes, email) ==
    LET email_lower == Lower(email) IN
    IF email_lower \in DOMAIN codes /\ ~codes[email_lower].verified
    THEN Del(codes, email_lower) ELSE codes

\* clear_password_reset_code
ClearPasswordResetCode(codes, email) ==
    LET email_lower == Lower(email) IN
    IF email_lower \in DOMAIN codes THEN Del(codes, email_lower) ELSE codes

(* ------------------------- observation of calls ----------------------- *)

REG == "registration-verify"
RESET == "password-reset"
FLOWS == { REG, RESET }

\* what the email sender can report: the mail went out, or it did not (the
\* AWS settings are missing, or SES raised)
DELIVERY == { "Sent", "NotSent" }

\* the latest call: its name, the code it carried (generated or submitted)
\* and what it returned
Op(op, email, code, result) ==
    [op |-> op, code |-> code, result |-> result]

\* hist.of[flow][key] records, for the claims, what callers did with a key:
\*   issued   the code the latest issue generated (None before any issue)
\*   at       the instant of the latest issue
\*   old      the codes earlier issues generated
\*   wrong    n >= 0 when the calls on the key since the latest issue were
\*            exactly n checks, each with a code other than the issued one
\*            and none answered Expired; -1 otherwise
\*   locked   TRUE once wrong reached MaxAttempts, until the next issue
\*   valid    TRUE once a check answered Valid, until the next issue
\*   cleared  TRUE once clear was called, until the next issue
\*   evicted  TRUE once a check answered TooManyAttempts, until the next issue
HistInit ==
    [issued |-> None, at |-> 0, old |-> {}, wrong |-> -1, locked |-> FALSE,
     valid |-> FALSE, cleared |-> FALSE, evicted |-> FALSE]

HistIssue(h, t, code) ==
    [issued |-> code,
     at |-> t,
     old |-> IF h.issued = None THEN h.old ELSE h.old \cup {h.issued},
     wrong |-> 0,
     locked |-> FALSE,
     valid |-> FALSE,
     cleared |-> FALSE,
     evicted |-> FALSE]

HistCheck(h, code, result) ==
    LET n == IF h.wrong >= 0 /\ code # h.issued /\ result.outcome # "Expired"
             THEN Min(h.wrong + 1, MaxCalls)
             ELSE -1
    IN  [h EXCEPT !.wrong = n,
                  !.locked = h.locked \/ n = MaxAttempts,
                  !.valid = h.valid \/ result.outcome = "Valid",
                  !.evicted = h.evicted \/ result.outcome = "TooManyAttempts"]

HistRead(h) == [h EXCEPT !.wrong = -1]

HistClear(h) == [h EXCEPT !.wrong = -1, !.cleared = TRUE]

\* the history at the start of a run: 'on' says whether the run records it,
\* 'spell' whether it also records the spelling of the email argument of
\* the latest issuing call and of the latest call
HistAtStart(on, spell) ==
    [on |-> on, spell |-> spell,
     of |-> [f \in FLOWS |-> [k \in KEYS |-> HistInit]],
     by |-> [issue |-> << >>, call |-> << >>]]

\* the history after a call on (flow, email); Spec keeps no history
Record(flow, email, h) ==
    IF hist.on
    THEN [hist EXCEPT !.of[flow][Lower(email)] = h,
                      !.by.call = IF hist.spell THEN email ELSE @]
    ELSE hist

\* the spelling under which the latest code was issued
Issuer(email, hs) ==
    IF hs.on /\ hs.spell THEN [hs EXCEPT !.by.issue = email] ELSE hs

H(flow, email) == hist.of[flow][Lower(email)]

(* ------------------------------ tokens -------------------------------- *)
(* app/services/auth.py signs and validates JWTs with python-jose. The     *)
(* clock of this part counts half seconds, because jwt.encode and          *)
(* jwt.decode compare whole seconds: timegm(d.utctimetuple()) drops the    *)
(* fraction of the second.                                                 *)

\* the instants, in half seconds, at which this part reads the clock at first
MaxClock == 3

\* settings.access_token_expire_minutes
access_token_expire_minutes == 1440

\* settings.secret_key, and a key that is not the server's
secret_key == "secret_key"
OTHER_KEYS == { "other_key" }

\* timedelta(minutes=m) in half seconds
Minutes(m) == m * 120

\* timegm(d.utctimetuple()): the whole seconds of an instant
Seconds(t) == t \div 2

\* the instants the clock is read at: the first ones, and the ones around
\* the default expiry of a token issued at one of the first ones
TOKEN_INSTANTS ==
    (0..MaxClock)
        \cup { Minutes(access_token_expire_minutes) + i : i \in (-1)..(MaxClock + 3) }

\* Optional[X]: None is the empty sequence, a value x is <<x>>
Absent == << >>
Some(x) == <<x>>

\* the dict handed to create_access_token; a key that is missing reads None
TOKEN_DATA ==
    [sub : {"64f0c1", None}, email : {"a@x.com"}, role : {"user", "admin"}]

\* the expires_delta handed to create_access_token, in half seconds: left
\* out, zero, shorter and longer than a second, and in the past
EXPIRES_DELTAS == { Absent, Some(0), Some(1), Some(4), Some(-2) }

\* jwt.encode(claims, key): the claims and the key that signed them
JwtEncode(claims, key) == [form |-> "jwt", claims |-> claims, key |-> key]

\* a string that is not a JWT
Garbage ==
    [form |-> "garbage",
     claims |-> [sub |-> None, email |-> None, role |-> None, exp |-> 0],
     key |-> None]

\* jwt.decode(token, key): the exception it raises ("none" when it returns)
JwtDecodeError(token, key, t) ==
    IF token.form # "jwt" THEN "JWTError"
    ELSE IF token.key # key THEN "JWTError"
    ELSE IF token.claims.exp < Seconds(t) THEN "ExpiredSignatureError"
    ELSE "none"

\* create_access_token at instant t
CreateAccessToken(data, expires_delta, t) ==
    LET expire == IF expires_delta # Absent /\ expires_delta[1] # 0
                  THEN t + expires_delta[1]
                  ELSE t + Minutes(access_token_expire_minutes)
    IN  JwtEncode([sub |-> data.sub, email |-> data.email, role |-> data.role,
                   exp |-> Seconds(expire)],
                  secret_key)

TokenData(user_id, email, role) ==
    [user_id |-> user_id, email |-> email, role |-> role]

\* decode_access_token at instant t: Optional[TokenData]
DecodeAccessToken(token, t) ==
    IF JwtDecodeError(token, secret_key, t) # "none" THEN Absent
    ELSE IF token.claims.sub = None THEN Absent
    ELSE Some(TokenData(token.claims.sub, token.claims.email, token.claims.role))

\* what a dependency does with the request: the value it returns and the
\* HTTPException it raises ("none" when it returns)
Auth(returned, raised) == [returned |-> returned, raised |-> raised]

credentials_exception == "401 Could not validate credentials"

\* get_current_user; HTTPBearer() itself rejects a request with no
\* Authorization header
GetCurrentUser(credentials, t) ==
    IF credentials = Absent THEN Auth(Absent, "403 Not authenticated")
    ELSE LET token_data == DecodeAccessToken(credentials[1], t) IN
         IF token_data = Absent THEN Auth(Absent, credentials_exception)
         ELSE Auth(token_data, "none")

\* OptionalAuth.__call__
OptionalAuth(credentials, t) ==
    IF credentials = Absent THEN Auth(Absent, "none")
    ELSE Auth(DecodeAccessToken(credentials[1], t), "none")

\* the latest create_access_token call: its arguments, its instant, its result
Issue(data, expires_delta, t, token) ==
    [data |-> data, expires_delta |-> expires_delta, at |-> t, token |-> token]

\* the latest validation since the latest create_access_token call: the
\* function, the credentials it was given and what it did
Validation(fn, credentials, result) ==
    [fn |-> fn, credentials |-> credentials, result |-> result]

NoIssue == Issue([sub |-> None, email |-> None, role |-> None], Absent, 0, Garbage)
NoValidation == Validation("start", Absent, Auth(Absent, "none"))

\* no token function has been called
TokensAtStart == clock = 0 /\ issued = NoIssue /\ authed = NoValidation

\* the tokens a client can present once a token was issued: that token, its
\* claims signed with another key, and a string that is not a JWT
Presentable ==
    IF issued = NoIssue THEN { Garbage }
    ELSE { issued.token, Garbage }
             \cup { JwtEncode(issued.token.claims, k) : k \in OTHER_KEYS }

storeVars == <<verification_codes, password_reset_codes, now, lastOp, hist>>

\* datetime.utcnow() moves on
TokenTick ==
    /\ \E t \in TOKEN_INSTANTS : t > clock /\ clock' = t
    /\ UNCHANGED <<issued, authed, storeVars, routeVars>>

create_access_token(data, expires_delta) ==
    /\ issued' = Issue(data, expires_delta, clock,
                       CreateAccessToken(data, expires_delta, clock))
    /\ authed' = NoValidation
    /\ UNCHANGED <<clock, storeVars, routeVars>>

decode_access_token(token) ==
    /\ authed' = Validation("decode_access_token", Some(token),
                            Auth(DecodeAccessToken(token, clock), "none"))
    /\ UNCHANGED <<clock, issued, storeVars, routeVars>>

get_current_user(credentials) ==
    /\ authed' = Validation("get_current_user", credentials,
                            GetCurrentUser(credentials, clock))
    /\ UNCHANGED <<clock, issued, storeVars, routeVars>>

optional_auth(credentials) ==
    /\ authed' = Validation("optional_auth", credentials,
                            OptionalAuth(credentials, clock))
    /\ UNCHANGED <<clock, issued, storeVars, routeVars>>

(* ------------------------------ routes -------------------------------- *)
(* The handlers of app/routes/auth.py are coroutines: one runs without     *)
(* interruption from one await to the next, and other handlers run while   *)
(* it is suspended. A handler step below is the code between two awaits.   *)
(* db.users only grows (no handler deletes a user), so a find_one that     *)
(* found the user would find it again at any later instant: the steps that *)
(* continue only when the user exists read db.users at the instant of the  *)
(* code that follows the await.                                            *)

\* handler coroutines suspended at an await at the same time
MaxInFlight == 2

\* the passwords clients submit, and the password of the seeded user
PASSWORDS == { "pw1", "pw2" }
SeedPassword == "pw0"

\* get_password_hash: a bcrypt hash, which verifies the password it was made of
GetPasswordHash(password) == [bcrypt |-> password]

\* a document of db.users (the fields the handlers below read or write)
User(email, password_hash, subdomain, role) ==
    [email |-> email, password_hash |-> password_hash,
     subdomain |-> subdomain, role |-> role]

\* the user the database may hold when the process starts
SeedUser == User(<<"a", "@", "x">>, GetPasswordHash(SeedPassword), "site", "user")

\* db.users.find_one({"email": email}): the position of the first document
\* with that email, 0 when there is none; the position stands for its _id
FindOne(us, email) ==
    IF \E i \in DOMAIN us : us[i].email = email
    THEN CHOOSE i \in DOMAIN us :
             /\ us[i].email = email
             /\ \A j \in 1..(i - 1) : us[j].email # email
    ELSE 0

\* a suspended handler: the function, the await it is suspended at, and the
\* locals it reads when it resumes
Call(fn, pc, email, password_hash, subdomain, id) ==
    [fn |-> fn, pc |-> pc, email |-> email, password_hash |-> password_hash,
     subdomain |-> subdomain, id |-> id]

NoCall == Call("none", "none", << >>, GetPasswordHash(None), None, 0)

\* the slot a new suspended handler takes
FreeSlot(s) ==
    /\ s \in 1..MaxInFlight
    /\ calls[s] = NoCall
    /\ \A j \in 1..(s - 1) : calls[j] # NoCall

\* the latest answer of an endpoint (status code and detail or message), the
\* emails whose password-reset code was verified by /verify-reset-code since
\* its issue, the emails for which /verify-code has answered verified, the
\* emails /forgot-password has issued a code for, those it has issued more
\* than one code for, and those whose password /reset-password has updated
Respond(status, detail) == [http EXCEPT !.status = status, !.detail = detail]

NoHttp ==
    [status |-> 0, detail |-> None, reset_verified |-> {}, code_verified |-> {},
     reset_issued |-> {}, reset_reissued |-> {}, reset_changed |-> {}]

RoutesAtStart ==
    /\ users = << >>
    /\ calls = [s \in 1..MaxInFlight |-> NoCall]
    /\ http = NoHttp

\* what an endpoint answers: the status code and the detail or message
Answer(status, detail) == [status |-> status, detail |-> detail]

\* the answer of POST /forgot-password when db.users holds us and the
\* delivery of the email ends as given
ForgotPassword(us, email, delivery) ==
    IF FindOne(us, Lower(email)) = 0
    THEN Answer(200, "If an account exists")
    ELSE IF delivery = "Sent"
    THEN Answer(200, "If an account exists")
    ELSE Answer(500, "Failed to send")

\* POST /forgot-password
forgot_password(email, code, delivery) ==
    /\ IF FindOne(users, Lower(email)) = 0
       THEN /\ http' = Respond(ForgotPassword(users, email, delivery).status,
                               ForgotPassword(users, email, delivery).detail)
            /\ UNCHANGED password_reset_codes
       ELSE /\ password_reset_codes' =
                   StorePasswordResetCode(password_reset_codes, now, email, code)
            /\ http' = [Respond(ForgotPassword(users, email, delivery).status,
                                ForgotPassword(users, email, delivery).detail)
                           EXCEPT !.reset_verified = @ \ {Lower(email)},
                                  !.reset_issued = @ \cup {Lower(email)},
                                  !.reset_reissued =
                                      @ \cup (http.reset_issued \cap {Lower(email)})]
    /\ UNCHANGED <<verification_codes, now, lastOp, hist, users, calls, tokenVars>>

\* POST /verify-reset-code
verify_reset_code(email, code) ==
    LET r == VerifyPasswordResetCode(password_reset_codes, now, email, code) IN
    /\ IF FindOne(users, Lower(email)) = 0
       THEN /\ http' = Respond(400, "Invalid email or code")
            /\ UNCHANGED password_reset_codes
       ELSE /\ password_reset_codes' = r.codes
            /\ http' = IF r.result.ok
                       THEN [Respond(200, "Valid")
                               EXCEPT !.reset_verified = @ \cup {Lower(email)}]
                       ELSE Respond(400, r.result.outcome)
    /\ UNCHANGED <<verification_codes, now, lastOp, hist, users, calls, tokenVars>>

\* POST /reset-password, up to `await db.users.update_one`
reset_password(email, code, new_password) ==
    LET id == FindOne(users, Lower(email))
        v == IsResetCodeVerified(password_reset_codes, now, email)
        r == VerifyPasswordResetCode(v.codes, now, email, code)
        suspended == Call("reset_password", "update_one", email,
                          GetPasswordHash(new_password), None, id)
    IN
    /\ \E s \in 1..MaxInFlight : FreeSlot(s)
    /\ IF id = 0
       THEN /\ http' = Respond(400, "Invalid request")
            /\ UNCHANGED <<password_reset_codes, calls>>
       ELSE IF v.result
       THEN /\ password_reset_codes' = v.codes
            /\ \E s \in 1..MaxInFlight :
                   FreeSlot(s) /\ calls' = [calls EXCEPT ![s] = suspended]
            /\ UNCHANGED http
       ELSE IF ~r.result.ok
       THEN /\ password_reset_codes' = r.codes
            /\ http' = Respond(400, r.result.outcome)
            /\ UNCHANGED calls
       ELSE /\ password_reset_codes' = r.codes
            /\ \E s \in 1..MaxInFlight :
                   FreeSlot(s) /\ calls' = [calls EXCEPT ![s] = suspended]
            /\ UNCHANGED http
    /\ UNCHANGED <<verification_codes, now, lastOp, hist, users, tokenVars>>

\* the database applies the update_one of a suspended reset_password
reset_password_update_one(s) ==
    /\ calls[s].fn = "reset_password" /\ calls[s].pc = "update_one"
    /\ users' = [users EXCEPT ![calls[s].id].password_hash = calls[s].password_hash]
    /\ calls' = [calls EXCEPT ![s].pc = "resume"]
    /\ http' = [http EXCEPT !.reset_changed = @ \cup {Lower(calls[s].email)}]
    /\ UNCHANGED <<storeVars, tokenVars>>

\* reset_password resumes after the update: it clears the code and answers
reset_password_resume(s) ==
    /\ calls[s].fn = "reset_password" /\ calls[s].pc = "resume"
    /\ password_reset_codes' =
           ClearPasswordResetCode(password_reset_codes, calls[s].email)
    /\ http' = Respond(200, "Password has been reset")
    /\ calls' = [calls EXCEPT ![s] = NoCall]
    /\ UNCHANGED <<verification_codes, now, lastOp, hist, users, tokenVars>>

\* a stored password_hash that is not a bcrypt hash
MalformedHash == [bcrypt |-> "not-a-hash"]

\* verify_password: what bcrypt.checkpw returns, and the exception it raises
\* ("none" when it returns); checkpw raises ValueError ("Invalid salt") on a
\* hash it cannot parse
VerifyPassword(plain_password, hashed_password) ==
    IF hashed_password = MalformedHash
    THEN [returned |-> FALSE, raised |-> "ValueError"]
    ELSE [returned |-> hashed_password.bcrypt = plain_password, raised |-> None]

\* the answer of POST /login when db.users holds us; an exception no handler
\* catches is answered 500 by the framework
Login(us, email, password) ==
    LET id == FindOne(us, Lower(email)) IN
    IF id = 0 THEN Answer(401, "Invalid email or password")
    ELSE LET v == VerifyPassword(password, us[id].password_hash) IN
         IF v.raised # None THEN Answer(500, "Internal Server Error")
         ELSE IF ~v.returned THEN Answer(401, "Invalid email or password")
         ELSE Answer(200, "Token")

\* POST /login; the token carries the id, the email and the role of the user
login(email, password) ==
    LET id == FindOne(users, Lower(email))
        answer == Login(users, email, password)
        data == [sub |-> "64f0c1", email |-> "a@x.com", role |-> users[id].role]
    IN
    /\ http' = Respond(answer.status, answer.detail)
    /\ IF answer.status = 200
       THEN /\ issued' = Issue(data, Absent, clock,
                               CreateAccessToken(data, Absent, clock))
            /\ authed' = NoValidation
       ELSE UNCHANGED <<issued, authed>>
    /\ UNCHANGED <<clock, storeVars, users, calls>>

\* str.split(sep): the pieces of str between the occurrences of sep
RECURSIVE Split(_, _)
Split(str, sep) ==
    IF \A i \in DOMAIN str : str[i] # sep
    THEN <<str>>
    ELSE LET i == CHOOSE i \in DOMAIN str :
                      str[i] = sep /\ \A j \in 1..(i - 1) : str[j] # sep
         IN  <<SubSeq(str, 1, i - 1)>> \o Split(SubSeq(str, i + 1, Len(str)), sep)

\* str.strip(): str without its leading and trailing blanks
RECURSIVE Strip(_)
Strip(str) ==
    IF str # << >> /\ Head(str) = " " THEN Strip(Tail(str))
    ELSE IF str # << >> /\ str[Len(str)] = " "
    THEN Strip(SubSeq(str, 1, Len(str) - 1))
    ELSE str

\* settings.admin_emails: the configured allow-list, "A@X, b@x"
admin_emails == <<"A", "@", "X", ",", " ", "b", "@", "x">>

\* settings.admin_email_list
admin_email_list ==
    LET entries == Split(admin_emails, ",") IN
    { Strip(entries[i]) : i \in DOMAIN entries }

\* a membership test on the email as it was spelled
IsAdminEmailCaseSensitive(email) == email \in admin_email_list

\* is_admin_email
IsAdminEmail(email) == Lower(email) \in { Lower(e) : e \in admin_email_list }

\* the subdomains clients ask for, and str.lower() on them
SUBDOMAINS == { "site", "Shop" }

LowerSubdomain(subdomain) ==
    CASE subdomain = "Shop" -> "shop"
      [] OTHER -> subdomain

\* db.users.find_one({"subdomain": subdomain}) finds a document
SubdomainTaken(us, subdomain) == \E i \in DOMAIN us : us[i].subdomain = subdomain

\* POST /send-code, up to the return of find_one
send_verification_code(email) ==
    /\ \E s \in 1..MaxInFlight : FreeSlot(s)
    /\ IF FindOne(users, Lower(email)) # 0
       THEN /\ http' = Respond(400, "Email already registered")
            /\ UNCHANGED calls
       ELSE /\ \E s \in 1..MaxInFlight :
                   /\ FreeSlot(s)
                   /\ calls' = [calls EXCEPT ![s] =
                                    Call("send_verification_code", "send", email,
                                         GetPasswordHash(None), None, 0)]
            /\ UNCHANGED http
    /\ UNCHANGED <<storeVars, users, tokenVars>>

\* send_verification_code resumes: send_verification_code_email and the answer
send_verification_code_send(s, code, delivery) ==
    /\ calls[s].fn = "send_verification_code" /\ calls[s].pc = "send"
    /\ verification_codes' =
           StoreVerificationCode(verification_codes, now, calls[s].email, code)
    /\ http' = IF delivery = "Sent"
               THEN Respond(200, "Verification code sent")
               ELSE Respond(500, "Failed to send")
    /\ calls' = [calls EXCEPT ![s] = NoCall]
    /\ UNCHANGED <<password_reset_codes, now, lastOp, hist, users, tokenVars>>

\* POST /verify-code
verify_verification_code(email, code) ==
    LET r == VerifyCode(verification_codes, now, email, code) IN
    /\ verification_codes' = r.codes
    /\ http' = IF r.result.ok
               THEN [Respond(200, "Valid")
                       EXCEPT !.code_verified = @ \cup {Lower(email)}]
               ELSE Respond(400, r.result.outcome)
    /\ UNCHANGED <<password_reset_codes, now, lastOp, hist, users, calls, tokenVars>>

\* POST /register, up to the return of find_one({"email": ...})
register(email, password, subdomain) ==
    /\ \E s \in 1..MaxInFlight : FreeSlot(s)
    /\ IF FindOne(users, Lower(email)) # 0
       THEN /\ http' = Respond(400, "Email already registered")
            /\ UNCHANGED calls
       ELSE /\ \E s \in 1..MaxInFlight :
                   /\ FreeSlot(s)
                   /\ calls' = [calls EXCEPT ![s] =
                                    Call("register", "find_one", email,
                                         GetPasswordHash(password), subdomain, 0)]
            /\ UNCHANGED http
    /\ UNCHANGED <<storeVars, users, tokenVars>>

\* register resumes with the result of find_one({"subdomain": ...})
register_find_one(s) ==
    /\ calls[s].fn = "register" /\ calls[s].pc = "find_one"
    /\ IF SubdomainTaken(users, LowerSubdomain(calls[s].subdomain))
       THEN /\ http' = Respond(400, "Subdomain already taken")
            /\ calls' = [calls EXCEPT ![s] = NoCall]
       ELSE /\ calls' = [calls EXCEPT ![s].pc = "insert_one"]
            /\ UNCHANGED http
    /\ UNCHANGED <<storeVars, users, tokenVars>>

\* the database inserts the user document; register resumes and answers with
\* the token and the user
register_insert_one(s) ==
    /\ calls[s].fn = "register" /\ calls[s].pc = "insert_one"
    /\ users' = Append(users,
                       User(Lower(calls[s].email), calls[s].password_hash,
                            LowerSubdomain(calls[s].subdomain),
                            IF IsAdminEmail(calls[s].email) THEN "admin" ELSE "user"))
    /\ http' = Respond(200, "Token")
    /\ calls' = [calls EXCEPT ![s] = NoCall]
    /\ UNCHANGED <<storeVars, tokenVars>>

(* ------------------------------- state -------------------------------- *)

Init ==
    /\ verification_codes = NoEntry
    /\ password_reset_codes = NoEntry
    /\ now = 0
    /\ lastOp = Op("start", << >>, None, Res(FALSE, "None", -1))
    /\ hist = HistAtStart(FALSE, FALSE)
    /\ TokensAtStart
    /\ RoutesAtStart

\* datetime.utcnow() moves on
Tick ==
    /\ \E t \in INSTANTS : t > now /\ now' = t
    /\ UNCHANGED <<verification_codes, password_reset_codes, lastOp, hist>>
    /\ UNCHANGED outside

\* an issue that stores the entry only once the email went out
send_verification_code_email_after_delivery(email, code, delivery) ==
    /\ lastOp' = Op("send_verification_code_email", email, code,
                    Res(delivery = "Sent", delivery, -1))
    /\ verification_codes' =
           IF delivery = "Sent"
           THEN StoreVerificationCode(verification_codes, now, email, code)
           ELSE verification_codes
    /\ hist' = Issuer(email, Record(REG, email, HistIssue(H(REG, email), now, code)))
    /\ UNCHANGED <<password_reset_codes, now>>
    /\ UNCHANGED outside

send_verification_code_email(email, code, delivery) ==
    /\ lastOp' = Op("send_verification_code_email", email, code,
                    Res(delivery = "Sent", delivery, -1))
    /\ verification_codes' = StoreVerificationCode(verification_codes, now, email, code)
    /\ hist' = Issuer(email, Record(REG, email, HistIssue(H(REG, email), now, code)))
    /\ UNCHANGED <<password_reset_codes, now>>
    /\ UNCHANGED outside

\* a check that falls back to the other flow's dictionary and consumes the
\* code it finds there
verify_code_either_flow(email, code) ==
    LET own == VerifyCode(verification_codes, now, email, code)
        other == VerifyPasswordResetCode(password_reset_codes, now, email, code)
        fallback == own.result.outcome = "NotFound" /\ other.result.ok
    IN
    /\ lastOp' = Op("verify_code", email, code,
                    IF fallback THEN other.result ELSE own.result)
    /\ verification_codes' = own.codes
    /\ password_reset_codes' =
           IF fallback THEN ClearPasswordResetCode(password_reset_codes, email)
           ELSE password_reset_codes
    /\ hist' = Record(REG, email, HistCheck(H(REG, email), code, own.result))
    /\ UNCHANGED now
    /\ UNCHANGED outside

verify_code(email, code) ==
    LET r == VerifyCode(verification_codes, now, email, code) IN
    /\ lastOp' = Op("verify_code", email, code, r.result)
    /\ verification_codes' = r.codes
    /\ hist' = Record(REG, email, HistCheck(H(REG, email), code, r.result))
    /\ UNCHANGED <<password_reset_codes, now>>
    /\ UNCHANGED outside

is_email_verified(email) ==
    /\ lastOp' = Op("is_email_verified", email, None,
                    Res(IsEmailVerified(verification_codes, email), "Bool", -1))
    /\ hist' = Record(REG, email, HistRead(H(REG, email)))
    /\ UNCHANGED <<verification_codes, password_reset_codes, now>>
    /\ UNCHANGED outside

clear_verification_code(email) ==
    /\ lastOp' = Op("clear_verification_code", email, None, Res(TRUE, "None", -1))
    /\ verification_codes' = ClearVerificationCode(verification_codes, email)
    /\ hist' = Record(REG, email, HistClear(H(REG, email)))
    /\ UNCHANGED <<password_reset_codes, now>>
    /\ UNCHANGED outside

send_password_reset_code_email(email, code, delivery) ==
    /\ lastOp' = Op("send_password_reset_code_email", email, code,
                    Res(delivery = "Sent", delivery, -1))
    /\ password_reset_codes' = StorePasswordResetCode(password_reset_codes, now, email, code)
    /\ hist' = Issuer(email, Record(RESET, email, HistIssue(H(RESET, email), now, code)))
    /\ UNCHANGED <<verification_codes, now>>
    /\ UNCHANGED outside

verify_password_reset_code(email, code) ==
    LET r == VerifyPasswordResetCode(password_reset_codes, now, email, code) IN
    /\ lastOp' = Op("verify_password_reset_code", email, code, r.result)
    /\ password_reset_codes' = r.codes
    /\ hist' = Record(RESET, email, HistCheck(H(RESET, email), code, r.result))
    /\ UNCHANGED <<verification_codes, now>>
    /\ UNCHANGED outside

is_reset_code_verified(email) ==
    LET r == IsResetCodeVerified(password_reset_codes, now, email) IN
    /\ lastOp' = Op("is_reset_code_verified", email, None, Res(r.result, "Bool", -1))
    /\ password_reset_codes' = r.codes
    /\ hist' = Record(RESET, email, HistRead(H(RESET, email)))
    /\ UNCHANGED <<verification_codes, now>>
    /\ UNCHANGED outside

clear_password_reset_code(email) ==
    /\ lastOp' = Op("clear_password_reset_code", email, None, Res(TRUE, "None", -1))
    /\ password_reset_codes' = ClearPasswordResetCode(password_reset_codes, email)
    /\ hist' = Record(RESET, email, HistClear(H(RESET, email)))
    /\ UNCHANGED <<verification_codes, now>>
    /\ UNCHANGED outside

(* ----- Spec: every interleaving of the calls of both flows ------------ *)

Next ==
    \/ Tick
    \/ \E e \in EMAILS, c \in CODES, d \in DELIVERY :
           send_verification_code_email(e, c, d)
    \/ \E e \in EMAILS, c \in CANDIDATES : verify_code(e, c)
    \/ \E e \in EMAILS : is_email_verified(e)
    \/ \E e \in EMAILS : clear_verification_code(e)
    \/ \E e \in EMAILS, c \in CODES, d \in DELIVERY :
           send_password_reset_code_email(e, c, d)
    \/ \E e \in EMAILS, c \in CANDIDATES : verify_password_reset_code(e, c)
    \/ \E e \in EMAILS : is_reset_code_verified(e)
    \/ \E e \in EMAILS : clear_password_reset_code(e)

Spec == Init /\ [][Next]_vars

(* ----- SpecOneFlow: the calls of a run with their history recorded ---- *)
(* The two dictionaries are disjoint state (under Spec no call of one     *)
(* flow reads or writes the other's), so the history of a key is followed *)
(* in runs whose callers issue codes in one flow only.                    *)

InitOneFlow ==
    /\ verification_codes = NoEntry
    /\ password_reset_codes = NoEntry
    /\ now = 0
    /\ lastOp = Op("start", << >>, None, Res(FALSE, "None", -1))
    /\ hist = HistAtStart(TRUE, FALSE)
    /\ TokensAtStart
    /\ RoutesAtStart

Idle(flow) == \A k \in KEYS : hist.of[flow][k].issued = None

NextOneFlow ==
    \/ Tick
    \/ \E e \in EMAILS, c \in CODES, d \in DELIVERY :
           Idle(RESET) /\ send_verification_code_email(e, c, d)
    \/ \E e \in EMAILS, c \in CANDIDATES : Idle(RESET) /\ verify_code(e, c)
    \/ \E e \in EMAILS : Idle(RESET) /\ is_email_verified(e)
    \/ \E e \in EMAILS : Idle(RESET) /\ clear_verification_code(e)
    \/ \E e \in EMAILS, c \in CODES, d \in DELIVERY :
           Idle(REG) /\ send_password_reset_code_email(e, c, d)
    \/ \E e \in EMAILS, c \in CANDIDATES :
           Idle(REG) /\ verify_password_reset_code(e, c)
    \/ \E e \in EMAILS : Idle(REG) /\ is_reset_code_verified(e)
    \/ \E e \in EMAILS : Idle(REG) /\ clear_password_reset_code(e)

SpecOneFlow == InitOneFlow /\ [][NextOneFlow]_vars

(* ----- SpecSpelling: SpecOneFlow with the callers' spellings recorded -- *)

InitSpelling ==
    /\ verification_codes = NoEntry
    /\ password_reset_codes = NoEntry
    /\ now = 0
    /\ lastOp = Op("start", << >>, None, Res(FALSE, "None", -1))
    /\ hist = HistAtStart(TRUE, TRUE)
    /\ TokensAtStart
    /\ RoutesAtStart

\* the codes and the delivery have no part in the spelling: one generated
\* code, one wrong candidate, a delivery that succeeds
NextSpelling ==
    \/ Tick
    \/ \E e \in EMAILS :
           Idle(RESET) /\ send_verification_code_email(e, "482913", "Sent")
    \/ \E e \in EMAILS, c \in {"482913", "123456"} :
           Idle(RESET) /\ verify_code(e, c)
    \/ \E e \in EMAILS : Idle(RESET) /\ is_email_verified(e)
    \/ \E e \in EMAILS : Idle(RESET) /\ clear_verification_code(e)
    \/ \E e \in EMAILS :
           Idle(REG) /\ send_password_reset_code_email(e, "482913", "Sent")
    \/ \E e \in EMAILS, c \in {"482913", "123456"} :
           Idle(REG) /\ verify_password_reset_code(e, c)
    \/ \E e \in EMAILS : Idle(REG) /\ is_reset_code_verified(e)
    \/ \E e \in EMAILS : Idle(REG) /\ clear_password_reset_code(e)

SpecSpelling == InitSpelling /\ [][NextSpelling]_vars

(* ----- SpecTokens: the token functions, called in any order ----------- *)

StoreAtStart ==
    /\ verification_codes = NoEntry
    /\ password_reset_codes = NoEntry
    /\ now = 0
    /\ lastOp = Op("start", << >>, None, Res(FALSE, "None", -1))
    /\ hist = HistAtStart(FALSE, FALSE)

InitTokens == StoreAtStart /\ TokensAtStart /\ RoutesAtStart

NextTokens ==
    \/ TokenTick
    \/ \E data \in TOKEN_DATA, expires_delta \in EXPIRES_DELTAS :
           create_access_token(data, expires_delta)
    \/ \E token \in Presentable : decode_access_token(token)
    \/ \E token \in Presentable : get_current_user(Some(token))
    \/ get_current_user(Absent)
    \/ \E token \in Presentable : optional_auth(Some(token))
    \/ optional_auth(Absent)

SpecTokens == InitTokens /\ [][NextTokens]_vars

(* ----- SpecReset: the forgot-password endpoints, called concurrently -- *)

InitReset ==
    /\ StoreAtStart
    /\ TokensAtStart
    /\ users \in { << >>, <<SeedUser>> }
    /\ calls = [s \in 1..MaxInFlight |-> NoCall]
    /\ http = NoHttp

NextReset ==
    \/ Tick
    \/ \E e \in EMAILS, c \in CODES, d \in DELIVERY : forgot_password(e, c, d)
    \/ \E e \in EMAILS, c \in CANDIDATES : verify_reset_code(e, c)
    \/ \E e \in EMAILS, c \in CANDIDATES, p \in PASSWORDS : reset_password(e, c, p)
    \/ \E s \in 1..MaxInFlight : reset_password_update_one(s)
    \/ \E s \in 1..MaxInFlight : reset_password_resume(s)

SpecReset == InitReset /\ [][NextReset]_vars

(* ----- SpecLogin: login and forgot-password, with and without the user  *)

\* a user whose stored password_hash is not a bcrypt hash
MalformedUser == User(<<"a", "@", "x">>, MalformedHash, "site", "user")

InitLogin ==
    /\ StoreAtStart
    /\ TokensAtStart
    /\ users \in { << >>, <<SeedUser>>, <<MalformedUser>> }
    /\ calls = [s \in 1..MaxInFlight |-> NoCall]
    /\ http = NoHttp

NextLogin ==
    \/ Tick
    \/ \E e \in EMAILS, p \in PASSWORDS \cup {SeedPassword} : login(e, p)
    \/ \E e \in EMAILS, c \in CODES, d \in DELIVERY : forgot_password(e, c, d)

SpecLogin == InitLogin /\ [][NextLogin]_vars

(* ----- SpecRegister: the registration endpoints, called concurrently -- *)

\* the passwords the clients of this specification submit
REGISTER_PASSWORDS == { "pw1" }

InitRegister ==
    /\ StoreAtStart
    /\ TokensAtStart
    /\ users \in { << >>, <<SeedUser>> }
    /\ calls = [s \in 1..MaxInFlight |-> NoCall]
    /\ http = NoHttp

NextRegister ==
    \/ Tick
    \/ \E e \in EMAILS : send_verification_code(e)
    \/ \E s \in 1..MaxInFlight, c \in CODES, d \in DELIVERY :
           send_verification_code_send(s, c, d)
    \/ \E e \in EMAILS, c \in CANDIDATES : verify_verification_code(e, c)
    \/ \E e \in EMAILS, p \in REGISTER_PASSWORDS, d \in SUBDOMAINS :
           register(e, p, d)
    \/ \E s \in 1..MaxInFlight : register_find_one(s)
    \/ \E s \in 1..MaxInFlight : register_insert_one(s)

SpecRegister == InitRegister /\ [][NextRegister]_vars

(* ----- SpecAdmin: register for emails on and off the admin allow-list - *)

\* the emails the clients of this specification register: both spellings of
\* the first entry of the allow-list, its second entry, and an email that
\* is not on it
ADMIN_EMAILS == EMAILS \cup { <<"b", "@", "x">>, <<"x", "@", "x">> }

InitAdmin ==
    /\ StoreAtStart
    /\ TokensAtStart
    /\ users \in { << >>, <<SeedUser>> }
    /\ calls = [s \in 1..MaxInFlight |-> NoCall]
    /\ http = NoHttp

\* the role of a new user hangs on its own request alone: the clients of
\* this specification send one request at a time
NextAdmin ==
    \/ \E e \in ADMIN_EMAILS, p \in REGISTER_PASSWORDS, d \in SUBDOMAINS :
           /\ \A s \in 1..MaxInFlight : calls[s] = NoCall
           /\ register(e, p, d)
    \/ \E s \in 1..MaxInFlight : register_find_one(s)
    \/ \E s \in 1..MaxInFlight : register_insert_one(s)

SpecAdmin == InitAdmin /\ [][NextAdmin]_vars

(* ------------------------------ claims -------------------------------- *)

\* the entry of key k exists, is unexpired at t and is below the attempt limit
Usable(codes, k, t) ==
    /\ k \in DOMAIN codes
    /\ t <= codes[k].expires_at
    /\ codes[k].attempts < MaxAttempts

\* the entry of key k exists and is expired at t
Stale(codes, k, t) == k \in DOMAIN codes /\ t > codes[k].expires_at

Codes(flow) == IF flow = REG THEN verification_codes ELSE password_reset_codes

Outcome == lastOp.result.outcome

\* the step is a call of the store function op
Called(op) == lastOp'.op = op

\* C1 as stated: in either flow, a check with a code that an earlier issue
\* generated and a later issue replaced returns Mismatch.
C1_Original ==
    [][/\ Called("verify_code") => \A e \in EMAILS, c \in CANDIDATES :
              (verify_code(e, c) /\ c \in H(REG, e).old)
                  => Outcome' = "Mismatch"
       /\ Called("verify_password_reset_code") => \A e \in EMAILS, c \in CANDIDATES :
              (verify_password_reset_code(e, c) /\ c \in H(RESET, e).old)
                  => Outcome' = "Mismatch"]_vars

\* C1 amended: in either flow, a check with a replaced code that differs from
\* the code the latest issue generated never returns Valid, and returns
\* Mismatch whenever the key's entry exists, is unexpired and is below the
\* attempt limit.
C1_ReissueInvalidates ==
    [][/\ Called("verify_code") => \A e \in EMAILS, c \in CANDIDATES :
              (verify_code(e, c) /\ c \in H(REG, e).old /\ c # H(REG, e).issued)
                  => /\ Outcome' # "Valid"
                     /\ Usable(verification_codes, Lower(e), now)
                            => Outcome' = "Mismatch"
       /\ Called("verify_password_reset_code") => \A e \in EMAILS, c \in CANDIDATES :
              (/\ verify_password_reset_code(e, c)
               /\ c \in H(RESET, e).old /\ c # H(RESET, e).issued)
                  => /\ Outcome' # "Valid"
                     /\ Usable(password_reset_codes, Lower(e), now)
                            => Outcome' = "Mismatch"]_vars

\* a check with the replaced code was answered Mismatch after a re-issue
C1_Witness ==
    \E k \in KEYS :
        /\ lastOp.op = "verify_code"
        /\ lastOp.code \in hist.of[REG][k].old
        /\ lastOp.code # hist.of[REG][k].issued
        /\ Outcome = "Mismatch"

\* C2: in either flow, after an issue and five consecutive wrong checks the
\* next check on the unexpired entry returns TooManyAttempts whatever code it
\* carries, and no check returns Valid before the next issue.
C2_LockedAfterFive ==
    [][/\ Called("verify_code") => \A e \in EMAILS, c \in CANDIDATES :
              verify_code(e, c)
                  => /\ (/\ H(REG, e).wrong = MaxAttempts
                         /\ ~Stale(verification_codes, Lower(e), now))
                            => Outcome' = "TooManyAttempts"
                     /\ H(REG, e).locked => Outcome' # "Valid"
       /\ Called("verify_password_reset_code") => \A e \in EMAILS, c \in CANDIDATES :
              verify_password_reset_code(e, c)
                  => /\ (/\ H(RESET, e).wrong = MaxAttempts
                         /\ ~Stale(password_reset_codes, Lower(e), now))
                            => Outcome' = "TooManyAttempts"
                     /\ H(RESET, e).locked => Outcome' # "Valid"]_vars

\* the sixth check carried the issued code and was answered TooManyAttempts
C2_Witness ==
    \E k \in KEYS :
        /\ lastOp.op = "verify_code"
        /\ lastOp.code = hist.of[REG][k].issued
        /\ hist.of[REG][k].locked
        /\ Outcome = "TooManyAttempts"

\* C3 as stated: after N wrong checks and nothing else on a key, its entry
\* holds attempt_count = min(N, 5).
C3_Original ==
    \A f \in FLOWS, k \in KEYS :
        LET n == hist.of[f][k].wrong IN
        n >= 1 => /\ k \in DOMAIN Codes(f)
                  /\ Codes(f)[k].attempts = Min(n, MaxAttempts)

\* C3 amended: after N wrong checks and nothing else on a key, none of them
\* answered Expired, no increment is lost: for N <= 5 the entry holds
\* attempt_count = N, and for N >= 6 the sixth call has deleted the entry.
C3_NoLostIncrement ==
    \A f \in FLOWS, k \in KEYS :
        LET n == hist.of[f][k].wrong IN
        n >= 1 => IF n <= MaxAttempts
                  THEN k \in DOMAIN Codes(f) /\ Codes(f)[k].attempts = n
                  ELSE k \notin DOMAIN Codes(f)

\* six wrong checks have run on a password-reset key and its entry is gone
C3_Witness ==
    \E k \in KEYS :
        /\ hist.of[RESET][k].wrong = MaxAttempts + 1
        /\ k \notin DOMAIN password_reset_codes

AttemptsInRange ==
    /\ \A k \in DOMAIN verification_codes :
           verification_codes[k].attempts \in 0..MaxAttempts
    /\ \A k \in DOMAIN password_reset_codes :
           password_reset_codes[k].attempts \in 0..MaxAttempts

\* C4: every stored entry has attempt_count in 0..5; an issue leaves it at 0;
\* and the attempt_count of a key that keeps an entry changes only by an
\* issue for the key or by a check whose code differs from the stored one,
\* which raises it by exactly 1.
C4_AttemptCount ==
    [][/\ AttemptsInRange'
       /\ Called("send_verification_code_email") =>
              \A e \in EMAILS, c \in CODES, d \in DELIVERY :
                  send_verification_code_email(e, c, d)
                      => verification_codes'[Lower(e)].attempts = 0
       /\ Called("send_password_reset_code_email") =>
              \A e \in EMAILS, c \in CODES, d \in DELIVERY :
                  send_password_reset_code_email(e, c, d)
                      => password_reset_codes'[Lower(e)].attempts = 0
       /\ \A k \in DOMAIN verification_codes :
              (/\ k \in DOMAIN verification_codes'
               /\ verification_codes'[k].attempts # verification_codes[k].attempts)
                  => \/ \E e \in EMAILS, c \in CODES, d \in DELIVERY :
                            send_verification_code_email(e, c, d) /\ Lower(e) = k
                     \/ \E e \in EMAILS, c \in CANDIDATES :
                            /\ verify_code(e, c) /\ Lower(e) = k
                            /\ c # verification_codes[k].code
                            /\ verification_codes'[k].attempts =
                                   verification_codes[k].attempts + 1
       /\ \A k \in DOMAIN password_reset_codes :
              (/\ k \in DOMAIN password_reset_codes'
               /\ password_reset_codes'[k].attempts # password_reset_codes[k].attempts)
                  => \/ \E e \in EMAILS, c \in CODES, d \in DELIVERY :
                            send_password_reset_code_email(e, c, d) /\ Lower(e) = k
                     \/ \E e \in EMAILS, c \in CANDIDATES :
                            /\ verify_password_reset_code(e, c) /\ Lower(e) = k
                            /\ c # password_reset_codes[k].code
                            /\ password_reset_codes'[k].attempts =
                                   password_reset_codes[k].attempts + 1]_vars

\* a wrong check has raised the attempt_count of a verified reset entry
C4_Witness ==
    /\ lastOp.op = "verify_password_reset_code"
    /\ Outcome = "Mismatch"
    /\ \E k \in DOMAIN password_reset_codes :
           /\ password_reset_codes[k].verified
           /\ password_reset_codes[k].attempts = 2

\* the check (e, c) is the fifth failed comparison on the key's entry
Fifth(codes, e, c) ==
    /\ Usable(codes, Lower(e), now)
    /\ codes[Lower(e)].attempts = MaxAttempts - 1
    /\ c # codes[Lower(e)].code

\* C5 as stated: when the check that records the fifth mismatch returns, the
\* dictionary holds no entry for the key.
C5_Original ==
    [][/\ Called("verify_code") => \A e \in EMAILS, c \in CANDIDATES :
              (verify_code(e, c) /\ Fifth(verification_codes, e, c))
                  => Lower(e) \notin DOMAIN verification_codes'
       /\ Called("verify_password_reset_code") => \A e \in EMAILS, c \in CANDIDATES :
              (/\ verify_password_reset_code(e, c)
               /\ Fifth(password_reset_codes, e, c))
                  => Lower(e) \notin DOMAIN password_reset_codes']_vars

\* C5 amended: the check that records the fifth mismatch leaves the entry in
\* the dictionary with attempt_count = 5; the next check that finds this
\* entry unexpired returns TooManyAttempts and deletes it.
C5_EvictedByNextCheck ==
    [][/\ Called("verify_code") => \A e \in EMAILS, c \in CANDIDATES :
              verify_code(e, c)
                  => /\ Fifth(verification_codes, e, c)
                         => /\ Lower(e) \in DOMAIN verification_codes'
                            /\ verification_codes'[Lower(e)].attempts = MaxAttempts
                     /\ (/\ Lower(e) \in DOMAIN verification_codes
                         /\ ~Stale(verification_codes, Lower(e), now)
                         /\ verification_codes[Lower(e)].attempts = MaxAttempts)
                         => /\ Outcome' = "TooManyAttempts"
                            /\ Lower(e) \notin DOMAIN verification_codes'
       /\ Called("verify_password_reset_code") => \A e \in EMAILS, c \in CANDIDATES :
              verify_password_reset_code(e, c)
                  => /\ Fifth(password_reset_codes, e, c)
                         => /\ Lower(e) \in DOMAIN password_reset_codes'
                            /\ password_reset_codes'[Lower(e)].attempts = MaxAttempts
                     /\ (/\ Lower(e) \in DOMAIN password_reset_codes
                         /\ ~Stale(password_reset_codes, Lower(e), now)
                         /\ password_reset_codes[Lower(e)].attempts = MaxAttempts)
                         => /\ Outcome' = "TooManyAttempts"
                            /\ Lower(e) \notin DOMAIN password_reset_codes']_vars

\* the fifth mismatch has been answered and the entry is still stored
C5_Witness ==
    /\ lastOp.op = "verify_code"
    /\ Outcome = "Mismatch"
    /\ lastOp.result.remaining = 0
    /\ \E k \in DOMAIN verification_codes :
           verification_codes[k].attempts = MaxAttempts

\* C6: in either flow a check on an entry with now > expires_at deletes the
\* entry and returns Expired whatever the code and the attempt_count; a check
\* at now = expires_at does not return Expired.
C6_ExpiryFirst ==
    [][/\ Called("verify_code") => \A e \in EMAILS, c \in CANDIDATES :
              verify_code(e, c)
                  => /\ Stale(verification_codes, Lower(e), now)
                         => /\ Outcome' = "Expired"
                            /\ Lower(e) \notin DOMAIN verification_codes'
                     /\ (/\ Lower(e) \in DOMAIN verification_codes
                         /\ now = verification_codes[Lower(e)].expires_at)
                         => Outcome' \in {"TooManyAttempts", "Mismatch", "Valid"}
       /\ Called("verify_password_reset_code") => \A e \in EMAILS, c \in CANDIDATES :
              verify_password_reset_code(e, c)
                  => /\ Stale(password_reset_codes, Lower(e), now)
                         => /\ Outcome' = "Expired"
                            /\ Lower(e) \notin DOMAIN password_reset_codes'
                     /\ (/\ Lower(e) \in DOMAIN password_reset_codes
                         /\ now = password_reset_codes[Lower(e)].expires_at)
                         => Outcome' \in {"TooManyAttempts", "Mismatch", "Valid"}]_vars

\* a password-reset check was answered Expired and left no entry
C6_Witness ==
    /\ lastOp.op = "verify_password_reset_code"
    /\ Outcome = "Expired"
    /\ password_reset_codes = NoEntry

\* C7: a wrong check on an unexpired entry below the attempt limit returns
\* Mismatch(r) with r = 5 - attempt_count after the increment, r >= 0, and
\* the k-th consecutive wrong check after an issue reports 5 - k.
C7_Remaining ==
    [][/\ Called("verify_code") => \A e \in EMAILS, c \in CANDIDATES :
              verify_code(e, c)
                  => /\ (/\ Usable(verification_codes, Lower(e), now)
                         /\ c # verification_codes[Lower(e)].code)
                         => /\ Lower(e) \in DOMAIN verification_codes'
                            /\ lastOp'.result =
                                 Res(FALSE, "Mismatch",
                                     MaxAttempts - verification_codes'[Lower(e)].attempts)
                            /\ lastOp'.result.remaining >= 0
                     /\ hist'.of[REG][Lower(e)].wrong \in 1..MaxAttempts
                         => lastOp'.result =
                              Res(FALSE, "Mismatch",
                                  MaxAttempts - hist'.of[REG][Lower(e)].wrong)
       /\ Called("verify_password_reset_code") => \A e \in EMAILS, c \in CANDIDATES :
              verify_password_reset_code(e, c)
                  => /\ (/\ Usable(password_reset_codes, Lower(e), now)
                         /\ c # password_reset_codes[Lower(e)].code)
                         => /\ Lower(e) \in DOMAIN password_reset_codes'
                            /\ lastOp'.result =
                                 Res(FALSE, "Mismatch",
                                     MaxAttempts - password_reset_codes'[Lower(e)].attempts)
                            /\ lastOp'.result.remaining >= 0
                     /\ hist'.of[RESET][Lower(e)].wrong \in 1..MaxAttempts
                         => lastOp'.result =
                              Res(FALSE, "Mismatch",
                                  MaxAttempts - hist'.of[RESET][Lower(e)].wrong)]_vars

\* the second consecutive wrong check was answered Mismatch(3)
C7_Witness ==
    /\ lastOp.op = "verify_password_reset_code"
    /\ lastOp.result = Res(FALSE, "Mismatch", 3)
    /\ \E k \in KEYS : hist.of[RESET][k].wrong = 2

\* C8: a registration-verify check that returns Valid deletes the entry, and
\* from then on every check for the email returns NotFound until a new issue.
C8_SingleUse ==
    [][Called("verify_code") => \A e \in EMAILS, c \in CANDIDATES :
           verify_code(e, c)
               => /\ Outcome' = "Valid"
                      => Lower(e) \notin DOMAIN verification_codes'
                  /\ H(REG, e).valid => Outcome' = "NotFound"]_vars

\* the code that was answered Valid was submitted again and answered NotFound
C8_Witness ==
    \E k \in KEYS :
        /\ lastOp.op = "verify_code"
        /\ lastOp.code = hist.of[REG][k].issued
        /\ hist.of[REG][k].valid
        /\ Outcome = "NotFound"

\* a Valid password-reset check sets verified and changes nothing else
C9_KeepsEntry ==
    Called("verify_password_reset_code") => \A e \in EMAILS, c \in CANDIDATES :
        (verify_password_reset_code(e, c) /\ Outcome' = "Valid")
            => /\ Lower(e) \in DOMAIN password_reset_codes
               /\ password_reset_codes' =
                      [password_reset_codes EXCEPT ![Lower(e)].verified = TRUE]

\* C9 as stated: a Valid password-reset check sets verified and keeps the
\* entry otherwise unchanged, and is_verified then returns true until the
\* entry is cleared, replaced by a new issue, or expires.
C9_Original ==
    [][/\ C9_KeepsEntry
       /\ Called("is_reset_code_verified") => \A e \in EMAILS :
              (/\ is_reset_code_verified(e)
               /\ H(RESET, e).valid
               /\ ~H(RESET, e).cleared
               /\ now <= H(RESET, e).at + ResetTTL)
                  => lastOp'.result.ok]_vars

\* C9 amended: ... and is_verified then returns true until the entry is
\* cleared, replaced by a new issue, expires, or is deleted by a check that
\* finds attempt_count at 5 (TooManyAttempts).
C9_VerifiedUntilRemoved ==
    [][/\ C9_KeepsEntry
       /\ Called("is_reset_code_verified") => \A e \in EMAILS :
              (/\ is_reset_code_verified(e)
               /\ H(RESET, e).valid
               /\ ~H(RESET, e).cleared
               /\ ~H(RESET, e).evicted
               /\ now <= H(RESET, e).at + ResetTTL)
                  => lastOp'.result.ok]_vars

\* is_verified returned true for an entry verified after a failed attempt
C9_Witness ==
    /\ lastOp.op = "is_reset_code_verified"
    /\ lastOp.result.ok
    /\ \E k \in DOMAIN password_reset_codes :
           /\ hist.of[RESET][k].valid
           /\ password_reset_codes[k].attempts = 1

\* C10: is_reset_code_verified returns true exactly when the lower-cased
\* email has an entry with now <= expires_at and verified = true; it deletes
\* an entry with now > expires_at (returning false) and otherwise leaves the
\* dictionary unchanged.
C10_IsVerified ==
    [][Called("is_reset_code_verified") => \A e \in EMAILS :
           is_reset_code_verified(e)
               => /\ lastOp'.result.ok <=>
                        /\ Lower(e) \in DOMAIN password_reset_codes
                        /\ now <= password_reset_codes[Lower(e)].expires_at
                        /\ password_reset_codes[Lower(e)].verified
                  /\ IF Stale(password_reset_codes, Lower(e), now)
                     THEN password_reset_codes' = Del(password_reset_codes, Lower(e))
                     ELSE password_reset_codes' = password_reset_codes]_vars

\* is_verified returned true at the very instant the entry expires
C10_Witness ==
    /\ lastOp.op = "is_reset_code_verified"
    /\ lastOp.result.ok
    /\ \E k \in DOMAIN password_reset_codes :
           now = password_reset_codes[k].expires_at

\* C11: in either flow clear leaves no entry for the key whatever the entry
\* was, changes nothing else, and changes nothing at all when the key has no
\* entry; from a clear until the next issue every check for the key returns
\* NotFound and is_reset_code_verified returns false.
C11_ClearDeletes ==
    [][/\ Called("clear_verification_code") => \A e \in EMAILS :
              clear_verification_code(e)
                  => /\ verification_codes' = Del(verification_codes, Lower(e))
                     /\ Lower(e) \notin DOMAIN verification_codes
                            => verification_codes' = verification_codes
       /\ Called("clear_password_reset_code") => \A e \in EMAILS :
              clear_password_reset_code(e)
                  => /\ password_reset_codes' = Del(password_reset_codes, Lower(e))
                     /\ Lower(e) \notin DOMAIN password_reset_codes
                            => password_reset_codes' = password_reset_codes
       /\ Called("verify_code") => \A e \in EMAILS, c \in CANDIDATES :
              (verify_code(e, c) /\ H(REG, e).cleared)
                  => Outcome' = "NotFound"
       /\ Called("verify_password_reset_code") => \A e \in EMAILS, c \in CANDIDATES :
              (verify_password_reset_code(e, c) /\ H(RESET, e).cleared)
                  => Outcome' = "NotFound"
       /\ Called("is_reset_code_verified") => \A e \in EMAILS :
              (is_reset_code_verified(e) /\ H(RESET, e).cleared)
                  => ~lastOp'.result.ok]_vars

\* is_reset_code_verified returned false after a clear removed an unexpired
\* entry whose code had been verified
C11_Witness ==
    \E k \in KEYS :
        /\ lastOp.op = "is_reset_code_verified"
        /\ ~lastOp.result.ok
        /\ hist.of[RESET][k].valid
        /\ hist.of[RESET][k].cleared
        /\ ~hist.of[RESET][k].evicted
        /\ now <= hist.of[RESET][k].at + ResetTTL
        /\ k \notin DOMAIN password_reset_codes

\* C12: in either flow a check on a key with no entry returns NotFound for
\* every candidate code and leaves both dictionaries unchanged.
C12_NotFound ==
    [][/\ Called("verify_code") => \A e \in EMAILS, c \in CANDIDATES :
              (verify_code(e, c) /\ Lower(e) \notin DOMAIN verification_codes)
                  => /\ lastOp'.result = Res(FALSE, "NotFound", -1)
                     /\ UNCHANGED <<verification_codes, password_reset_codes>>
       /\ Called("verify_password_reset_code") => \A e \in EMAILS, c \in CANDIDATES :
              (/\ verify_password_reset_code(e, c)
               /\ Lower(e) \notin DOMAIN password_reset_codes)
                  => /\ lastOp'.result = Res(FALSE, "NotFound", -1)
                     /\ UNCHANGED <<verification_codes, password_reset_codes>>]_vars

\* a registration check with one of the generated codes was answered NotFound
\* while the password-reset dictionary held an entry
C12_Witness ==
    /\ lastOp.op = "verify_code"
    /\ lastOp.code \in CODES
    /\ Outcome = "NotFound"
    /\ verification_codes = NoEntry
    /\ password_reset_codes # NoEntry

\* C13: the keys of both dictionaries are lower-cased emails, one entry each,
\* and an issue leaves under the key exactly the fresh entry (the generated
\* code, attempt_count 0, verified false in the reset flow, expires_at = now +
\* TTL of the flow) and leaves every other key as it was.
C13_IssueReplaces ==
    [][/\ DOMAIN verification_codes' \subseteq KEYS
       /\ DOMAIN password_reset_codes' \subseteq KEYS
       /\ Called("send_verification_code_email") =>
              \A e \in EMAILS, c \in CODES, d \in DELIVERY :
                  send_verification_code_email(e, c, d)
                      => /\ verification_codes'[Lower(e)] =
                                [code |-> c, expires_at |-> now + VerifyTTL,
                                 attempts |-> 0]
                         /\ Del(verification_codes', Lower(e)) =
                                Del(verification_codes, Lower(e))
       /\ Called("send_password_reset_code_email") =>
              \A e \in EMAILS, c \in CODES, d \in DELIVERY :
                  send_password_reset_code_email(e, c, d)
                      => /\ password_reset_codes'[Lower(e)] =
                                [code |-> c, expires_at |-> now + ResetTTL,
                                 attempts |-> 0, verified |-> FALSE]
                         /\ Del(password_reset_codes', Lower(e)) =
                                Del(password_reset_codes, Lower(e))]_vars

\* a password-reset code was issued again after the clock had moved, and the
\* key holds the fresh entry alone
C13_Witness ==
    \E k \in KEYS :
        /\ lastOp.op = "send_password_reset_code_email"
        /\ hist.of[RESET][k].old # {}
        /\ hist.of[RESET][k].at = VerifyTTL
        /\ DOMAIN password_reset_codes = {k}
        /\ password_reset_codes[k] =
               [code |-> lastOp.code, expires_at |-> VerifyTTL + ResetTTL,
                attempts |-> 0, verified |-> FALSE]

\* C14: the expires_at of a key that keeps an entry changes only by an issue
\* for the key, which sets it to now + 10 (registration-verify) or now + 15
\* (password-reset); no check, query or clear changes it.
C14_ExpiryFixed ==
    [][/\ \A k \in DOMAIN verification_codes :
              (/\ k \in DOMAIN verification_codes'
               /\ verification_codes'[k].expires_at # verification_codes[k].expires_at)
                  => \E e \in EMAILS, c \in CODES, d \in DELIVERY :
                         /\ send_verification_code_email(e, c, d) /\ Lower(e) = k
                         /\ verification_codes'[k].expires_at = now + VerifyTTL
       /\ \A k \in DOMAIN password_reset_codes :
              (/\ k \in DOMAIN password_reset_codes'
               /\ password_reset_codes'[k].expires_at # password_reset_codes[k].expires_at)
                  => \E e \in EMAILS, c \in CODES, d \in DELIVERY :
                         /\ send_password_reset_code_email(e, c, d) /\ Lower(e) = k
                         /\ password_reset_codes'[k].expires_at = now + ResetTTL
       /\ Called("send_verification_code_email") =>
              \A e \in EMAILS, c \in CODES, d \in DELIVERY :
                  send_verification_code_email(e, c, d)
                      => verification_codes'[Lower(e)].expires_at = now + VerifyTTL
       /\ Called("send_password_reset_code_email") =>
              \A e \in EMAILS, c \in CODES, d \in DELIVERY :
                  send_password_reset_code_email(e, c, d)
                      => password_reset_codes'[Lower(e)].expires_at = now + ResetTTL]_vars

\* a password-reset check was answered Valid ten minutes after the issue and
\* the entry still expires fifteen minutes after the issue
C14_Witness ==
    /\ lastOp.op = "verify_password_reset_code"
    /\ Outcome = "Valid"
    /\ now = VerifyTTL
    /\ \E k \in DOMAIN password_reset_codes :
           /\ password_reset_codes[k].verified
           /\ password_reset_codes[k].expires_at = ResetTTL

\* C15: every read of a key whose entry has now > expires_at (a check in
\* either flow, is_reset_code_verified, is_email_verified) leaves no entry for
\* the key and succeeds or fails as the same read of a key with no entry does.
C15_LazyExpiry ==
    [][/\ Called("verify_code") => \A e \in EMAILS, c \in CANDIDATES :
              (verify_code(e, c) /\ Stale(verification_codes, Lower(e), now))
                  => /\ Lower(e) \notin DOMAIN verification_codes'
                     /\ lastOp'.result.ok =
                            VerifyCode(NoEntry, now, e, c).result.ok
       /\ Called("verify_password_reset_code") => \A e \in EMAILS, c \in CANDIDATES :
              (/\ verify_password_reset_code(e, c)
               /\ Stale(password_reset_codes, Lower(e), now))
                  => /\ Lower(e) \notin DOMAIN password_reset_codes'
                     /\ lastOp'.result.ok =
                            VerifyPasswordResetCode(NoEntry, now, e, c).result.ok
       /\ Called("is_reset_code_verified") => \A e \in EMAILS :
              (/\ is_reset_code_verified(e)
               /\ Stale(password_reset_codes, Lower(e), now))
                  => /\ Lower(e) \notin DOMAIN password_reset_codes'
                     /\ lastOp'.result.ok =
                            IsResetCodeVerified(NoEntry, now, e).result
       /\ Called("is_email_verified") => \A e \in EMAILS :
              (is_email_verified(e) /\ Stale(verification_codes, Lower(e), now))
                  => /\ Lower(e) \notin DOMAIN verification_codes'
                     /\ lastOp'.result.ok = IsEmailVerified(NoEntry, e)]_vars

\* the failure the claims name for a token at instant t ("none": the token
\* is well-formed, signed with the server's key, unexpired and has a subject)
TokenFailure(token, t) ==
    IF token.form # "jwt" \/ token.key # secret_key THEN "TokenMalformed"
    ELSE IF Seconds(t) > token.claims.exp THEN "TokenExpired"
    ELSE IF token.claims.sub = None THEN "TokenMissingSubject"
    ELSE "none"

\* C18: optional authentication returns anonymous without error when the
\* request carries no token, and raises an error when it carries a token
\* that is malformed, wrongly signed, expired or without subject.
C18_OptionalAuthRaises ==
    [][/\ optional_auth(Absent) => authed'.result = Auth(Absent, "none")
       /\ \A token \in Presentable :
              (optional_auth(Some(token)) /\ TokenFailure(token, clock) # "none")
                  => authed'.result.raised # "none"]_vars

\* C19: validation returns the subject, email and role given at issue when
\* the token has no failure, and two tokens that fail for different reasons
\* (TokenMalformed, TokenExpired, TokenMissingSubject) at the same instant
\* are not answered alike, by decode_access_token and by get_current_user.
C19_DistinctFailures ==
    [][\A token \in Presentable :
           /\ decode_access_token(token)
                  => /\ TokenFailure(token, clock) = "none"
                         => authed'.result.returned =
                                Some(TokenData(issued.data.sub, issued.data.email,
                                               issued.data.role))
                     /\ \A other \in Presentable :
                            (/\ TokenFailure(token, clock) # "none"
                             /\ TokenFailure(other, clock) # "none"
                             /\ TokenFailure(other, clock) # TokenFailure(token, clock))
                                => authed'.result #
                                       Auth(DecodeAccessToken(other, clock), "none")
           /\ get_current_user(Some(token))
                  => /\ TokenFailure(token, clock) = "none"
                         => authed'.result.returned =
                                Some(TokenData(issued.data.sub, issued.data.email,
                                               issued.data.role))
                     /\ \A other \in Presentable :
                            (/\ TokenFailure(token, clock) # "none"
                             /\ TokenFailure(other, clock) # "none"
                             /\ TokenFailure(other, clock) # TokenFailure(token, clock))
                                => authed'.result #
                                       GetCurrentUser(Some(other), clock)]_vars

\* the ttl of the latest issue: the expires_delta passed, or the default
IssuedTTL ==
    IF issued.expires_delta = Absent
    THEN Minutes(access_token_expire_minutes)
    ELSE issued.expires_delta[1]

\* C20: validation of a token issued with a subject at t0 with a ttl T other
\* than zero (the default when none is passed) succeeds at every instant
\* before t0 + T and fails at t0 + T and at every later instant.
C20_ValidUntilExpiry ==
    [][(/\ issued # NoIssue
        /\ issued.data.sub # None
        /\ issued.expires_delta # Some(0)
        /\ decode_access_token(issued.token))
           => IF clock < issued.at + IssuedTTL
              THEN authed'.result.returned # Absent
              ELSE authed'.result.returned = Absent]_vars

\* C16: the password of a user changes only when the password-reset code of
\* the user's email was verified by a /verify-reset-code call since it was
\* issued.
C16_VerifiedBeforeReset ==
    [][\A id \in DOMAIN users :
           users'[id].password_hash # users[id].password_hash
               => users[id].email \in http.reset_verified]_vars

\* C17: a user document is created for an email only after /verify-code has
\* answered verified for that email.
C17_VerifyBeforeRegister ==
    [][Len(users') > Len(users)
           => users'[Len(users')].email \in http.code_verified]_vars

\* C28: the verified flag of a password-reset key that keeps its entry goes
\* from true to false only by an issue for the key; no check sets it back,
\* and is_reset_code_verified returns true for a verified, unexpired entry
\* also when its attempt_count is 5.
C28_VerifiedMonotone ==
    [][/\ \A k \in DOMAIN password_reset_codes :
              (/\ k \in DOMAIN password_reset_codes'
               /\ password_reset_codes[k].verified
               /\ ~password_reset_codes'[k].verified)
                  => \E e \in EMAILS, c \in CODES, d \in DELIVERY :
                         send_password_reset_code_email(e, c, d) /\ Lower(e) = k
       /\ Called("verify_password_reset_code") => \A e \in EMAILS, c \in CANDIDATES :
              (/\ verify_password_reset_code(e, c)
               /\ Lower(e) \in DOMAIN password_reset_codes
               /\ Lower(e) \in DOMAIN password_reset_codes')
                  => (password_reset_codes[Lower(e)].verified
                          => password_reset_codes'[Lower(e)].verified)
       /\ Called("is_reset_code_verified") => \A e \in EMAILS :
              (/\ is_reset_code_verified(e)
               /\ Lower(e) \in DOMAIN password_reset_codes
               /\ ~Stale(password_reset_codes, Lower(e), now)
               /\ password_reset_codes[Lower(e)].verified)
                  => lastOp'.result.ok]_vars

\* is_reset_code_verified returned true for a verified entry whose
\* attempt_count is 5
C28_Witness ==
    /\ lastOp.op = "is_reset_code_verified"
    /\ lastOp.result.ok
    /\ \E k \in DOMAIN password_reset_codes :
           /\ password_reset_codes[k].verified
           /\ password_reset_codes[k].attempts = MaxAttempts

\* issue, check, query and clear of the registration-verify flow leave
\* password_reset_codes unchanged, and those of the password-reset flow
\* leave verification_codes unchanged
FlowsFramed ==
    /\ (\/ Called("send_verification_code_email") \/ Called("verify_code")
        \/ Called("is_email_verified") \/ Called("clear_verification_code"))
           => ((\/ verification_codes' # verification_codes
                \/ lastOp' # lastOp)
                   => UNCHANGED password_reset_codes)
    /\ (\/ Called("send_password_reset_code_email")
        \/ Called("verify_password_reset_code")
        \/ Called("is_reset_code_verified")
        \/ Called("clear_password_reset_code"))
           => ((\/ password_reset_codes' # password_reset_codes
                \/ lastOp' # lastOp)
                   => UNCHANGED verification_codes)

\* C29 as stated: the operations of one flow leave the other flow's entries
\* unchanged, and a check of one flow never answers Valid to the code that
\* the other flow's entry of the same email holds.
C29_Original ==
    [][/\ FlowsFramed
       /\ Called("verify_code") => \A e \in EMAILS, c \in CANDIDATES :
              (/\ verify_code(e, c)
               /\ Lower(e) \in DOMAIN password_reset_codes
               /\ password_reset_codes[Lower(e)].code = c)
                  => Outcome' # "Valid"
       /\ Called("verify_password_reset_code") => \A e \in EMAILS, c \in CANDIDATES :
              (/\ verify_password_reset_code(e, c)
               /\ Lower(e) \in DOMAIN verification_codes
               /\ verification_codes[Lower(e)].code = c)
                  => Outcome' # "Valid"]_vars

\* C29 amended: issue, check, query and clear of the registration-verify
\* flow leave password_reset_codes unchanged, those of the password-reset
\* flow leave verification_codes unchanged, and a check returns Valid only
\* for the code held in its own flow's dictionary: the code of the other
\* flow's entry is accepted only when the own entry holds the same code.
C29_FlowsIsolated ==
    [][/\ FlowsFramed
       /\ Called("verify_code") => \A e \in EMAILS, c \in CANDIDATES :
              (verify_code(e, c) /\ Outcome' = "Valid")
                  => /\ Lower(e) \in DOMAIN verification_codes
                     /\ verification_codes[Lower(e)].code = c
       /\ Called("verify_password_reset_code") => \A e \in EMAILS, c \in CANDIDATES :
              (verify_password_reset_code(e, c) /\ Outcome' = "Valid")
                  => /\ Lower(e) \in DOMAIN password_reset_codes
                     /\ password_reset_codes[Lower(e)].code = c]_vars

\* the code held by the password-reset entry of the email was submitted to
\* the registration-verify check, which answered NotFound and left the
\* password-reset entry in place
C29_Witness ==
    /\ lastOp.op = "verify_code"
    /\ Outcome = "NotFound"
    /\ \E k \in DOMAIN password_reset_codes :
           /\ password_reset_codes[k].code = lastOp.code
           /\ ~password_reset_codes[k].verified
           /\ k \notin DOMAIN verification_codes

\* the spellings that name the same address as email
Spellings(email) == { e \in EMAILS : Lower(e) = Lower(email) }

\* C23: every key held in either dictionary is lower-case, and a call of
\* issue, check, is_verified or clear leaves the dictionaries and returns
\* the result that the same call under any other spelling of the email
\* would have left and returned.
C23_CaseInsensitive ==
    [][/\ \A k \in DOMAIN verification_codes' \cup DOMAIN password_reset_codes' :
              Lower(k) = k
       /\ Called("send_verification_code_email") =>
              \A e \in EMAILS, c \in CODES, d \in DELIVERY :
                  send_verification_code_email(e, c, d) => \A e2 \in Spellings(e) :
                      verification_codes' =
                          StoreVerificationCode(verification_codes, now, e2, c)
       /\ Called("verify_code") => \A e \in EMAILS, c \in CANDIDATES :
              verify_code(e, c) => \A e2 \in Spellings(e) :
                  /\ verification_codes' =
                         VerifyCode(verification_codes, now, e2, c).codes
                  /\ lastOp'.result =
                         VerifyCode(verification_codes, now, e2, c).result
       /\ Called("is_email_verified") => \A e \in EMAILS :
              is_email_verified(e) => \A e2 \in Spellings(e) :
                  lastOp'.result.ok = IsEmailVerified(verification_codes, e2)
       /\ Called("clear_verification_code") => \A e \in EMAILS :
              clear_verification_code(e) => \A e2 \in Spellings(e) :
                  verification_codes' =
                      ClearVerificationCode(verification_codes, e2)
       /\ Called("send_password_reset_code_email") =>
              \A e \in EMAILS, c \in CODES, d \in DELIVERY :
                  send_password_reset_code_email(e, c, d) => \A e2 \in Spellings(e) :
                      password_reset_codes' =
                          StorePasswordResetCode(password_reset_codes, now, e2, c)
       /\ Called("verify_password_reset_code") => \A e \in EMAILS, c \in CANDIDATES :
              verify_password_reset_code(e, c) => \A e2 \in Spellings(e) :
                  /\ password_reset_codes' =
                         VerifyPasswordResetCode(password_reset_codes, now, e2, c).codes
                  /\ lastOp'.result =
                         VerifyPasswordResetCode(password_reset_codes, now, e2, c).result
       /\ Called("is_reset_code_verified") => \A e \in EMAILS :
              is_reset_code_verified(e) => \A e2 \in Spellings(e) :
                  /\ password_reset_codes' =
                         IsResetCodeVerified(password_reset_codes, now, e2).codes
                  /\ lastOp'.result.ok =
                         IsResetCodeVerified(password_reset_codes, now, e2).result
       /\ Called("clear_password_reset_code") => \A e \in EMAILS :
              clear_password_reset_code(e) => \A e2 \in Spellings(e) :
                  password_reset_codes' =
                      ClearPasswordResetCode(password_reset_codes, e2)]_vars

\* a code issued under the spelling a@x was submitted under the spelling
\* A@X and the check answered Valid
C23_Witness ==
    /\ hist.by.issue = <<"a", "@", "x">>
    /\ hist.by.call = <<"A", "@", "X">>
    /\ lastOp.op = "verify_code"
    /\ Outcome = "Valid"

\* C25: is_email_verified returns true only if a registration-verify code
\* of the email was checked successfully: it returns false for an email no
\* code was ever issued for, and false when the only code issued for the
\* email was never answered Valid (its entry expired, was locked out or was
\* cleared).
C25_VerifiedMeansChecked ==
    [][Called("is_email_verified") => \A e \in EMAILS :
           is_email_verified(e) =>
               /\ (H(REG, e).issued = None => ~lastOp'.result.ok)
               /\ ((H(REG, e).old = {} /\ ~H(REG, e).valid)
                       => ~lastOp'.result.ok)]_vars

\* C30 as stated: an issue whose delivery fails returns success = false and
\* leaves the new code stored with attempt_count 0, and the code that was
\* valid before the call is no longer accepted.
C30_Original ==
    [][/\ Called("send_verification_code_email") => \A e \in EMAILS, c \in CODES :
              send_verification_code_email(e, c, "NotSent")
                  => /\ ~lastOp'.result.ok
                     /\ Lower(e) \in DOMAIN verification_codes'
                     /\ verification_codes'[Lower(e)] =
                            [code |-> c, expires_at |-> now + VerifyTTL,
                             attempts |-> 0]
                     /\ Usable(verification_codes, Lower(e), now)
                            => VerifyCode(verification_codes', now, e,
                                          verification_codes[Lower(e)].code
                                         ).result.outcome # "Valid"
       /\ Called("send_password_reset_code_email") => \A e \in EMAILS, c \in CODES :
              send_password_reset_code_email(e, c, "NotSent")
                  => /\ ~lastOp'.result.ok
                     /\ Lower(e) \in DOMAIN password_reset_codes'
                     /\ password_reset_codes'[Lower(e)] =
                            [code |-> c, expires_at |-> now + ResetTTL,
                             attempts |-> 0, verified |-> FALSE]
                     /\ Usable(password_reset_codes, Lower(e), now)
                            => VerifyPasswordResetCode(password_reset_codes', now, e,
                                   password_reset_codes[Lower(e)].code
                               ).result.outcome # "Valid"]_vars

\* C30 amended: an issue whose delivery fails returns success = false and
\* leaves the new code stored with attempt_count 0, and the code that was
\* valid before the call, when the new code differs from it, is answered
\* Mismatch.
C30_StoredBeforeDelivery ==
    [][/\ Called("send_verification_code_email") => \A e \in EMAILS, c \in CODES :
              send_verification_code_email(e, c, "NotSent")
                  => /\ ~lastOp'.result.ok
                     /\ Lower(e) \in DOMAIN verification_codes'
                     /\ verification_codes'[Lower(e)] =
                            [code |-> c, expires_at |-> now + VerifyTTL,
                             attempts |-> 0]
                     /\ (/\ Usable(verification_codes, Lower(e), now)
                         /\ verification_codes[Lower(e)].code # c)
                            => VerifyCode(verification_codes', now, e,
                                          verification_codes[Lower(e)].code
                                         ).result.outcome = "Mismatch"
       /\ Called("send_password_reset_code_email") => \A e \in EMAILS, c \in CODES :
              send_password_reset_code_email(e, c, "NotSent")
                  => /\ ~lastOp'.result.ok
                     /\ Lower(e) \in DOMAIN password_reset_codes'
                     /\ password_reset_codes'[Lower(e)] =
                            [code |-> c, expires_at |-> now + ResetTTL,
                             attempts |-> 0, verified |-> FALSE]
                     /\ (/\ Usable(password_reset_codes, Lower(e), now)
                         /\ password_reset_codes[Lower(e)].code # c)
                            => VerifyPasswordResetCode(password_reset_codes', now, e,
                                   password_reset_codes[Lower(e)].code
                               ).result.outcome = "Mismatch"]_vars

\* an issue that replaced an earlier code by a different one failed to
\* deliver, and the dictionary holds the new code with attempt_count 0
C30_Witness ==
    \E k \in DOMAIN verification_codes :
        /\ lastOp.op = "send_verification_code_email"
        /\ Outcome = "NotSent"
        /\ hist.of[REG][k].old # {}
        /\ lastOp.code \notin hist.of[REG][k].old
        /\ verification_codes[k].code = lastOp.code
        /\ verification_codes[k].attempts = 0

\* C26: reset_password goes on to update the password only when the code
\* its request carries equals the code stored for the email, also when the
\* entry is already marked verified.
C26_CodeOfTheRequest ==
    [][\A e \in EMAILS, c \in CANDIDATES, p \in PASSWORDS :
           (reset_password(e, c, p) /\ calls' # calls)
               => /\ Lower(e) \in DOMAIN password_reset_codes
                  /\ password_reset_codes[Lower(e)].code = c]_vars

\* C27: while one password-reset code has been issued for an email, at most
\* one reset_password updates the password of that email, whatever the
\* interleaving of the requests, and the entry is absent once a
\* reset_password has completed.
C27_OneChangePerCode ==
    [][/\ \A s \in 1..MaxInFlight :
              (/\ reset_password_update_one(s)
               /\ Lower(calls[s].email) \in http.reset_issued
               /\ Lower(calls[s].email) \notin http.reset_reissued)
                  => Lower(calls[s].email) \notin http.reset_changed
       /\ \A s \in 1..MaxInFlight :
              reset_password_resume(s)
                  => Lower(calls[s].email) \notin DOMAIN password_reset_codes']_vars

\* C21: verify_password raises nothing, and a login for a user whose stored
\* password_hash is malformed is answered 401 'Invalid email or password'
\* like a login with a wrong password.
C21_MalformedHashIs401 ==
    [][\A e \in EMAILS, p \in PASSWORDS \cup {SeedPassword} :
           (/\ login(e, p)
            /\ FindOne(users, Lower(e)) # 0
            /\ users[FindOne(users, Lower(e))].password_hash = MalformedHash)
               => /\ VerifyPassword(p, MalformedHash) =
                         [returned |-> FALSE, raised |-> None]
                  /\ http'.status = 401
                  /\ http'.detail = "Invalid email or password"]_vars

\* the run that differs from the one with db.users = us only in whether a
\* user with the email exists
OtherRun(us, email) ==
    IF FindOne(us, Lower(email)) = 0
    THEN Append(us, User(Lower(email), GetPasswordHash(SeedPassword), "site", "user"))
    ELSE SelectSeq(us, LAMBDA u : u.email # Lower(email))

\* C22: a login whose password matches in neither run, and a forgot-password
\* under either outcome of the delivery, get the status code and the body
\* that the same request gets in the run that differs only in whether the
\* email belongs to a user.
C22_SameAnswerEitherWay ==
    [][/\ \A e \in EMAILS, p \in PASSWORDS \cup {SeedPassword} :
              (/\ login(e, p)
               /\ http'.status # 200
               /\ Login(OtherRun(users, e), e, p).status # 200)
                  => Login(OtherRun(users, e), e, p) =
                         Answer(http'.status, http'.detail)
       /\ \A e \in EMAILS, c \in CODES, d \in DELIVERY :
              forgot_password(e, c, d)
                  => ForgotPassword(OtherRun(users, e), e, d) =
                         Answer(http'.status, http'.detail)]_vars

\* the entries of the allow-list "A@X, b@x"
AllowList == { <<"A", "@", "X">>, <<"b", "@", "x">> }

\* the email equals an entry of the allow-list when both are lower-cased
Privileged(email) == \E entry \in AllowList : Lower(entry) = Lower(email)

\* C24: is_admin_email is true of exactly the emails that equal, without
\* regard to case, an entry of the comma-separated allow-list, and the user
\* document register inserts has the role 'admin' exactly when that holds of
\* the submitted email and the role 'user' otherwise.
C24_AdminByAllowList ==
    [][/\ \A e \in ADMIN_EMAILS : IsAdminEmail(e) <=> Privileged(e)
       /\ \A s \in 1..MaxInFlight :
              register_insert_one(s)
                  => users'[Len(users')].role =
                         IF Privileged(calls[s].email) THEN "admin" ELSE "user"]_vars

\* register has created an admin for the entry of the allow-list that is
\* configured with a leading blank, and a plain user for the email that is
\* not on the list
C24_Witness ==
    /\ \E i \in DOMAIN users :
           users[i].email = <<"b", "@", "x">> /\ users[i].role = "admin"
    /\ \E i \in DOMAIN users :
           users[i].email = <<"x", "@", "x">> /\ users[i].role = "user"

====
